---- MODULE Spec2Model ----
(***************************************************************************)
(* State-machine model of the Sleman dashboard ETL pipeline:               *)
(*   - DatabaseManager (utils/database.ts): facts_long, etl_checkpoints,   *)
(*     etl_logs and the upsert / checkpoint / log operations on them;      *)
(*   - CKANApiLoader (loaders/loader_api_ckan.ts): the paginated fetch     *)
(*     loop with retries and the long / wide record transform;             *)
(*   - EtlRunner (run.ts): processApiSource and processCsvSource.          *)
(* A string of the data is the sequence of its characters, `${a}|${b}`    *)
(* is \o.  A value that may be null is a sequence: <<>> is null, <<v>> is  *)
(* the value v.                                                            *)
(***************************************************************************)
EXTENDS Integers, Sequences, FiniteSets, TLC

VARIABLES
  facts,        \* table facts_long: the rows in insertion order
  checkpoints,  \* table etl_checkpoints: <<source_type, source_ref>> -> <<>> | <<last_offset>>
  etl_logs,     \* table etl_logs: the rows in insertion order
  now,          \* the clock CURRENT_TIMESTAMP / new Date() read (whole seconds)
  foundRows,    \* affectedRows the connection reports for a row set to its current values
  call,         \* the last DatabaseManager upsert call: arguments and outcome
  prev,         \* the call before it
  ncalls,       \* DatabaseManager upsert calls made so far
  env,          \* etl.config.json and the remote resource: settings, source, remote records
  run,          \* the source being processed: position, locals, and what the run did
  hist,         \* across runs: runs started, remote offsets handed to the store
  connection,   \* DatabaseManager.connection: "null" or "open"
  job           \* EtlRunner.run: mode, filter, position in the source lists, outcome

vars == <<facts, checkpoints, etl_logs, now, foundRows, call, prev, ncalls,
          env, run, hist, connection, job>>

\* ------------------------------------------------------------------ bounds
MaxClock == 2      \* the clock ticks this many times
MaxBatch == 2      \* records per upsertRecords call in the store specification
MaxCalls == 2      \* upsert calls in one behaviour of the store specification
MaxRemote == 3     \* records of the remote resource
MaxBatchSize == 1  \* settings.batch_size is 1..MaxBatchSize
MaxRuns == 2       \* runs of a source in one behaviour of the run specification
MaxSources == 2    \* API sources, and file sources, of etl.config.json

\* ------------------------------------------------------------------ values
\* A string of the data (a cell, elemen, satuan, a hash input) is the sequence
\* of its characters; field names and other fixed words are TLA+ strings.
\* A JSON value is <<"null">>, <<"number", n>> (n an integer),
\* <<"string", chars>> or <<"object", pairs>>, pairs being the <<key, value>>
\* members in the order of Object.keys.
None == <<>>
Some(v) == <<v>>

JNull == <<"null">>
JNum(n) == <<"number", n>>
JStr(chars) == <<"string", chars>>
JObj(pairs) == <<"object", pairs>>

Max(a, b) == IF a >= b THEN a ELSE b

DigitChars == <<"0", "1", "2", "3", "4", "5", "6", "7", "8", "9">>
IsDigit(c) == \E d \in DOMAIN DigitChars : DigitChars[d] = c
DigitVal(c) == (CHOOSE d \in DOMAIN DigitChars : DigitChars[d] = c) - 1
IsSpace(c) == c \in {" ", "\t", "\n", "\r"}

RECURSIVE NatToStr(_)
NatToStr(n) ==
  IF n < 10 THEN <<DigitChars[n + 1]>>
  ELSE NatToStr(n \div 10) \o <<DigitChars[(n % 10) + 1]>>

\* String(n) of an integer
IntToStr(n) == IF n < 0 THEN <<"-">> \o NatToStr(0 - n) ELSE NatToStr(n)

NullStr == <<"n", "u", "l", "l">>

\* `${x}` inside a template literal: of tahun (integer or null), of nilai (a
\* number, kept as its decimal numeral, or null) and of satuan (string or null)
NumStr(o) == IF o = None THEN NullStr ELSE IntToStr(o[1])
OptStr(o) == IF o = None THEN NullStr ELSE o[1]

\* String(value) of a JSON value that is not null
ToStr(v) ==
  CASE v[1] = "number" -> IntToStr(v[2])
    [] v[1] = "string" -> v[2]
    [] OTHER -> <<"[", "o", "b", "j", "e", "c", "t", " ", "O", "b", "j", "e", "c", "t", "]">>

RECURSIVE TrimStart(_)
TrimStart(s) == IF s /= <<>> /\ IsSpace(Head(s)) THEN TrimStart(Tail(s)) ELSE s

RECURSIVE TrimEnd(_)
TrimEnd(s) ==
  IF s /= <<>> /\ IsSpace(s[Len(s)]) THEN TrimEnd(SubSeq(s, 1, Len(s) - 1)) ELSE s

\* String.prototype.trim
Trim(s) == TrimEnd(TrimStart(s))

\* the longest prefix of digits
RECURSIVE TakeDigits(_)
TakeDigits(s) ==
  IF s /= <<>> /\ IsDigit(Head(s)) THEN <<Head(s)>> \o TakeDigits(Tail(s)) ELSE <<>>

RECURSIVE DigitsValue(_, _)
DigitsValue(ds, acc) ==
  IF ds = <<>> THEN acc ELSE DigitsValue(Tail(ds), (acc * 10) + DigitVal(Head(ds)))

DropSign(s) == IF s /= <<>> /\ Head(s) \in {"-", "+"} THEN Tail(s) ELSE s
IsNegative(s) == s /= <<>> /\ Head(s) = "-"

\* parseInt(s, 10): None is NaN
ParseInt(s) ==
  LET t == TrimStart(s)
      ds == TakeDigits(DropSign(t))
  IN IF ds = <<>> THEN None
     ELSE Some(IF IsNegative(t) THEN 0 - DigitsValue(ds, 0) ELSE DigitsValue(ds, 0))

RECURSIVE StripLeadingZeros(_)
StripLeadingZeros(ds) ==
  IF Len(ds) > 1 /\ Head(ds) = "0" THEN StripLeadingZeros(Tail(ds)) ELSE ds

RECURSIVE StripTrailingZeros(_)
StripTrailingZeros(ds) ==
  IF ds /= <<>> /\ ds[Len(ds)] = "0"
  THEN StripTrailingZeros(SubSeq(ds, 1, Len(ds) - 1)) ELSE ds

\* parseFloat(s) of a decimal numeral without exponent: None is NaN, a number
\* is kept as the numeral String(number) prints
ParseFloat(s) ==
  LET t == TrimStart(s)
      u == DropSign(t)
      int == TakeDigits(u)
      rest == SubSeq(u, Len(int) + 1, Len(u))
      frac == IF rest /= <<>> /\ Head(rest) = "." THEN TakeDigits(Tail(rest)) ELSE <<>>
      i == StripLeadingZeros(IF int = <<>> THEN <<"0">> ELSE int)
      f == StripTrailingZeros(frac)
      zero == i = <<"0">> /\ f = <<>>
  IN IF int = <<>> /\ frac = <<>> THEN None
     ELSE Some((IF IsNegative(t) /\ ~zero THEN <<"-">> ELSE <<>>)
               \o i \o (IF f = <<>> THEN <<>> ELSE <<".">> \o f))

RECURSIVE RemoveCommas(_)
RemoveCommas(s) ==
  IF s = <<>> THEN <<>>
  ELSE (IF Head(s) = "," THEN <<>> ELSE <<Head(s)>>) \o RemoveCommas(Tail(s))

IsNullOrEmpty(v) == v = JNull \/ v = JStr(<<>>)

\* CKANApiLoader.parseIntSafely
parseIntSafely(value) ==
  IF IsNullOrEmpty(value) THEN None ELSE ParseInt(ToStr(value))

\* CKANApiLoader.parseFloatSafely
parseFloatSafely(value) ==
  IF IsNullOrEmpty(value) THEN None ELSE ParseFloat(RemoveCommas(ToStr(value)))

\* crypto sha256 hex digest: modelled as collision free, the digest of a
\* string is the string itself
calculateHash(input) == input

Bar == <<"|">>

\* mkHash of CKANApiLoader.transformRecord
mkHash(kategori, resource_id, elemen, tahun, nilai, satuan) ==
  calculateHash(kategori \o Bar \o elemen \o Bar \o NumStr(tahun) \o Bar
                \o OptStr(nilai) \o Bar \o OptStr(satuan) \o Bar \o resource_id)

\* ------------------------------------------------------------------ transform
HasMember(pairs, key) == \E i \in DOMAIN pairs : pairs[i][1] = key

Member(pairs, key) == pairs[CHOOSE i \in DOMAIN pairs : pairs[i][1] = key][2]

\* the loop of extractField over keys, which is fieldPath.split('.'): <<>> is
\* an undefined fieldPath and <<"">> the empty one
RECURSIVE WalkPath(_, _)
WalkPath(value, keys) ==
  IF keys = <<>> THEN value
  ELSE IF value[1] = "object" /\ HasMember(value[2], Head(keys))
  THEN WalkPath(Member(value[2], Head(keys)), Tail(keys))
  ELSE JNull

\* CKANApiLoader.extractField: if (!fieldPath) return null
extractField(record, fieldPath) ==
  IF fieldPath = <<>> \/ fieldPath = <<"">> THEN JNull
  ELSE WalkPath(record, fieldPath)

\* (s != null && String(s).trim() !== '') ? String(s).trim() : null
CleanUnit(v) ==
  IF v /= JNull /\ Trim(ToStr(v)) /= <<>> THEN Some(Trim(ToStr(v))) ELSE None

\* String(extractField(record, map.elemen_field) ?? '').trim()
ElemenOf(record, map) ==
  LET v == extractField(record, map.elemen_field)
  IN IF v = JNull THEN <<>> ELSE Trim(ToStr(v))

\* key.match(new RegExp(map.year_column_regex)) for the regular expression
\* "Data (\d{4})" over the member names of the sample records: the first
\* capture group, None when the key does not match
YearColumnRegex == "Data (\\d{4})"
KeyMatch(regex, key) ==
  CASE regex = YearColumnRegex /\ key = "Data 2019" -> Some(<<"2", "0", "1", "9">>)
    [] regex = YearColumnRegex /\ key = "Data 2020" -> Some(<<"2", "0", "2", "0">>)
    [] OTHER -> None

ProcessedRecord(sourceConfig, elemen, tahun, nilai, satuan, raw) ==
  [kategori |-> sourceConfig.kategori, elemen |-> elemen, tahun |-> tahun,
   nilai |-> nilai, satuan |-> satuan, raw_json |-> raw, source_type |-> "api",
   source_ref |-> sourceConfig.resource_id,
   hash_key |-> mkHash(sourceConfig.kategori, sourceConfig.resource_id,
                       elemen, tahun, nilai, satuan)]

\* a mode long that drops the record whose year does not parse
M_TransformLong(record, sourceConfig) ==
  LET map == sourceConfig.mapping
      elemen == ElemenOf(record, map)
      tahun == parseIntSafely(extractField(record, map.tahun_field))
      nilai == parseFloatSafely(extractField(record, map.nilai_field))
      satuan == CleanUnit(extractField(record, map.satuan_field))
  IN IF elemen = <<>> \/ tahun = None THEN <<>>
     ELSE <<ProcessedRecord(sourceConfig, elemen, tahun, nilai, satuan, record[2])>>

\* CASE 1 of transformRecord: mode long
TransformLong(record, sourceConfig) ==
  LET map == sourceConfig.mapping
      elemen == ElemenOf(record, map)
      tahun == parseIntSafely(extractField(record, map.tahun_field))
      nilai == parseFloatSafely(extractField(record, map.nilai_field))
      satuan == CleanUnit(extractField(record, map.satuan_field))
  IN IF elemen = <<>> THEN <<>>
     ELSE <<ProcessedRecord(sourceConfig, elemen, tahun, nilai, satuan, record[2])>>

\* a loop of CASE 2 that stops at the first year column
RECURSIVE M_WideRows(_, _, _, _, _)
M_WideRows(record, sourceConfig, elemen, satuan, i) ==
  IF i > Len(record[2]) THEN <<>>
  ELSE LET key == record[2][i][1]
           m == KeyMatch(sourceConfig.mapping.year_column_regex[1], key)
       IN IF m = None THEN M_WideRows(record, sourceConfig, elemen, satuan, i + 1)
          ELSE <<ProcessedRecord(sourceConfig, elemen,
                   parseIntSafely(JStr(m[1])),
                   parseFloatSafely(record[2][i][2]), satuan,
                   Append(record[2], <<"__value_from__", <<"key", key>>>>))>>

\* the loop of CASE 2 over Object.keys(record), from member i on
RECURSIVE WideRows(_, _, _, _, _)
WideRows(record, sourceConfig, elemen, satuan, i) ==
  IF i > Len(record[2]) THEN <<>>
  ELSE LET key == record[2][i][1]
           m == KeyMatch(sourceConfig.mapping.year_column_regex[1], key)
           rest == WideRows(record, sourceConfig, elemen, satuan, i + 1)
       IN IF m = None THEN rest
          ELSE <<ProcessedRecord(sourceConfig, elemen,
                   parseIntSafely(JStr(m[1])),
                   parseFloatSafely(record[2][i][2]), satuan,
                   Append(record[2], <<"__value_from__", <<"key", key>>>>))>>
               \o rest

\* CASE 2 of transformRecord: mode wide
TransformWide(record, sourceConfig) ==
  LET map == sourceConfig.mapping
      elemen == ElemenOf(record, map)
      unitFromMap == extractField(record, map.unit_field)
      unitFallback == extractField(record, <<"Satuan">>)
      satuan == CleanUnit(IF unitFromMap /= JNull THEN unitFromMap ELSE unitFallback)
  IN IF elemen = <<>> THEN <<>>
     ELSE WideRows(record, sourceConfig, elemen, satuan, 1)

\* a transformRecord that takes a mapping of neither mode for mode long
M_transformRecord(record, sourceConfig) ==
  IF ~(sourceConfig.mapping.tahun_field /= <<>>
       /\ sourceConfig.mapping.nilai_field /= <<>>)
     /\ sourceConfig.mapping.year_column_regex /= None
  THEN TransformWide(record, sourceConfig)
  ELSE TransformLong(record, sourceConfig)

\* a transformRecord that tests year_column_regex first
M_transformRecordWideFirst(record, sourceConfig) ==
  IF sourceConfig.mapping.year_column_regex /= None
  THEN TransformWide(record, sourceConfig)
  ELSE IF sourceConfig.mapping.tahun_field /= <<>>
          /\ sourceConfig.mapping.nilai_field /= <<>>
  THEN TransformLong(record, sourceConfig)
  ELSE <<>>

\* CKANApiLoader.transformRecord
transformRecord(record, sourceConfig) ==
  LET map == sourceConfig.mapping
  IN IF map.tahun_field /= <<>> /\ map.nilai_field /= <<>>
     THEN TransformLong(record, sourceConfig)
     ELSE IF map.year_column_regex /= None
     THEN TransformWide(record, sourceConfig)
     ELSE <<>>

\* String(v) raises a TypeError: v is an object with a member toString, which
\* in a value parsed from JSON is never a function
Unprintable(v) == v[1] = "object" /\ HasMember(v[2], "toString")

\* CKANApiLoader.transformRecord raises: a String(...) on its way raises
transformThrows(record, sourceConfig) ==
  LET map == sourceConfig.mapping
      elemen == extractField(record, map.elemen_field)
      unitFromMap == extractField(record, map.unit_field)
      unit == IF unitFromMap /= JNull THEN unitFromMap
              ELSE extractField(record, <<"Satuan">>)
  IN IF map.tahun_field /= <<>> /\ map.nilai_field /= <<>>
     THEN \/ Unprintable(elemen)
          \/ /\ ElemenOf(record, map) /= <<>>
             /\ \/ Unprintable(extractField(record, map.tahun_field))
                \/ Unprintable(extractField(record, map.nilai_field))
                \/ Unprintable(extractField(record, map.satuan_field))
     ELSE IF map.year_column_regex /= None
     THEN \/ Unprintable(elemen)
          \/ /\ ElemenOf(record, map) /= <<>>
             /\ \/ Unprintable(unit)
                \/ \E i \in DOMAIN record[2] :
                     /\ KeyMatch(map.year_column_regex[1], record[2][i][1]) /= None
                     /\ Unprintable(record[2][i][2])
     ELSE FALSE

\* a processRecords whose loop has no try/catch: one record that raises
\* loses the page
RECURSIVE M_processRecords(_, _)
M_processRecords(records, sourceConfig) ==
  IF records = <<>> THEN <<>>
  ELSE IF \E i \in DOMAIN records : transformThrows(records[i], sourceConfig)
  THEN <<>>
  ELSE transformRecord(Head(records), sourceConfig)
       \o M_processRecords(Tail(records), sourceConfig)

\* CKANApiLoader.processRecords: a record whose transform raises is skipped
RECURSIVE processRecords(_, _)
processRecords(records, sourceConfig) ==
  IF records = <<>> THEN <<>>
  ELSE (IF transformThrows(Head(records), sourceConfig) THEN <<>>
        ELSE transformRecord(Head(records), sourceConfig))
       \o processRecords(Tail(records), sourceConfig)

\* ------------------------------------------------------------------ file transform
\* truthiness of a JSON value: null, '' and 0 are falsy
Truthy(v) == v /= JNull /\ v /= JStr(<<>>) /\ v /= JNum(0)

RECURSIVE KeepChars(_, _)
KeepChars(s, keep) ==
  IF s = <<>> THEN <<>>
  ELSE (IF IsDigit(Head(s)) \/ Head(s) \in keep THEN <<Head(s)>> ELSE <<>>)
       \o KeepChars(Tail(s), keep)

IsNullOrBlank(v) == v = JNull \/ Trim(ToStr(v)) = <<>>

\* CsvLoader.parseIntSafely
csvParseIntSafely(value) ==
  IF IsNullOrBlank(value) THEN None ELSE ParseInt(KeepChars(ToStr(value), {"-"}))

\* CsvLoader.parseFloatSafely
csvParseFloatSafely(value) ==
  IF IsNullOrBlank(value) THEN None
  ELSE ParseFloat(RemoveCommas(KeepChars(ToStr(value), {".", ",", "-"})))

\* CsvLoader.extractField raises: fieldPath.split of an undefined fieldPath
csvExtractFieldThrows(fieldPath) == fieldPath = <<>>

\* CsvLoader.extractField of a fieldPath that is a string
csvExtractField(record, fieldPath) == WalkPath(record, fieldPath)

\* CsvLoader.transformRecord: <<>> is null
csvTransformRecord(record, sourceConfig, fileName) ==
  LET map == sourceConfig.mapping
      elemen == csvExtractField(record, map.elemen_field)
      tahunRaw == csvExtractField(record, map.tahun_field)
      nilaiRaw == csvExtractField(record, map.nilai_field)
      satuan == csvExtractField(record, map.satuan_field)
      cleanElemen == Trim(ToStr(elemen))
      tahun == IF Truthy(tahunRaw) THEN csvParseIntSafely(tahunRaw) ELSE None
      nilai == IF Truthy(nilaiRaw) THEN csvParseFloatSafely(nilaiRaw) ELSE None
      cleanSatuan == IF Truthy(satuan) /\ Trim(ToStr(satuan)) /= <<>>
                     THEN Some(Trim(ToStr(satuan))) ELSE None
  IN IF ~Truthy(elemen) \/ cleanElemen = <<>> THEN <<>>
     ELSE <<[kategori |-> sourceConfig.kategori, elemen |-> cleanElemen,
             tahun |-> tahun, nilai |-> nilai, satuan |-> cleanSatuan,
             raw_json |-> record[2], source_type |-> "csv",
             source_ref |-> fileName,
             hash_key |-> calculateHash(
               sourceConfig.kategori \o Bar \o cleanElemen \o Bar \o NumStr(tahun)
               \o Bar \o OptStr(nilai) \o Bar \o OptStr(cleanSatuan) \o Bar
               \o fileName)]>>

\* CsvLoader.processRecords
RECURSIVE csvProcessRecords(_, _, _)
csvProcessRecords(records, sourceConfig, fileName) ==
  IF records = <<>> THEN <<>>
  ELSE csvTransformRecord(Head(records), sourceConfig, fileName)
       \o csvProcessRecords(Tail(records), sourceConfig, fileName)

\* CsvLoader.fieldExists
RECURSIVE fieldExists(_, _)
fieldExists(value, keys) ==
  IF keys = <<>> THEN TRUE
  ELSE /\ value[1] = "object"
       /\ HasMember(value[2], Head(keys))
       /\ fieldExists(Member(value[2], Head(keys)), Tail(keys))

\* Object.keys(record)
Keys(record) == [i \in DOMAIN record[2] |-> record[2][i][1]]

\* the three required fields a validation that forgets satuan_field checks
M_RequiredFields(mapping) ==
  <<mapping.elemen_field, mapping.tahun_field, mapping.nilai_field>>

\* requiredFields of validateCsvStructure
RequiredFields(mapping) ==
  <<mapping.elemen_field, mapping.tahun_field, mapping.nilai_field,
    mapping.satuan_field>>

\* the loop of validateCsvStructure over requiredFields, from field i on
RECURSIVE FieldErrors(_, _, _)
FieldErrors(sampleRecord, requiredFields, i) ==
  IF i > Len(requiredFields) THEN <<>>
  ELSE (IF fieldExists(sampleRecord, requiredFields[i]) THEN <<>>
        ELSE << <<"Required field not found", requiredFields[i],
                  Keys(sampleRecord)>> >>)
       \o FieldErrors(sampleRecord, requiredFields, i + 1)

\* CsvLoader.validateCsvStructure of a file that exists and parses: errors,
\* rows being the sampled records
validateCsvErrors(rows, sourceConfig) ==
  IF rows = <<>> THEN << <<"No data records found in file">> >>
  ELSE FieldErrors(rows[1], RequiredFields(sourceConfig.mapping), 1)

\* CsvLoader.validateCsvStructure of a file that exists and parses: isValid
validateCsvStructure(rows, sourceConfig) ==
  validateCsvErrors(rows, sourceConfig) = <<>>

\* ------------------------------------------------------------------ facts_long
\* INSERT of one VALUES tuple that meets no row with its hash_key
InsertRow(r, t) ==
  [kategori |-> r.kategori, elemen |-> r.elemen, tahun |-> r.tahun,
   nilai |-> r.nilai, satuan |-> r.satuan, raw_json |-> r.raw_json,
   source_type |-> r.source_type, source_ref |-> r.source_ref,
   hash_key |-> r.hash_key, ingested_at |-> t, updated_at |-> t]

\* a REPLACE of the whole row instead of the column list
M_OnDuplicateKeyUpdate(row, r, t) == InsertRow(r, t)

\* ON DUPLICATE KEY UPDATE nilai, satuan, raw_json, source_type, source_ref,
\* updated_at = CURRENT_TIMESTAMP
OnDuplicateKeyUpdate(row, r, t) ==
  [row EXCEPT !.nilai = r.nilai, !.satuan = r.satuan, !.raw_json = r.raw_json,
              !.source_type = r.source_type, !.source_ref = r.source_ref,
              !.updated_at = t]

HasKey(table, h) == \E i \in DOMAIN table : table[i].hash_key = h

\* a plain INSERT into a table without the unique key
M_UpsertRow(table, r, t) == Append(table, InsertRow(r, t))

\* one VALUES tuple of INSERT ... ON DUPLICATE KEY UPDATE under UNIQUE KEY
\* uniq_hash (hash_key)
UpsertRow(table, r, t) ==
  IF HasKey(table, r.hash_key)
  THEN [i \in DOMAIN table |->
          IF table[i].hash_key = r.hash_key
          THEN OnDuplicateKeyUpdate(table[i], r, t) ELSE table[i]]
  ELSE Append(table, InsertRow(r, t))

\* the whole multi-row statement, tuple by tuple
RECURSIVE UpsertRows(_, _, _)
UpsertRows(table, recs, t) ==
  IF recs = <<>> THEN table
  ELSE UpsertRows(UpsertRow(table, Head(recs), t), Tail(recs), t)

\* ResultSetHeader.affectedRows of the statement: 1 for an inserted row, 2 for
\* an existing row that changed, and for an existing row set to its current
\* values `same`: 0, or 1 on a connection opened with CLIENT_FOUND_ROWS
RECURSIVE AffectedRows(_, _, _, _)
AffectedRows(table, recs, t, same) ==
  IF recs = <<>> THEN 0
  ELSE LET r == Head(recs)
           after == UpsertRow(table, r, t)
           one == IF ~HasKey(table, r.hash_key) THEN 1
                  ELSE IF after /= table THEN 2 ELSE same
       IN one + AffectedRows(after, Tail(recs), t, same)

ZeroResult == [inserted |-> 0, updated |-> 0, skipped |-> 0, errors |-> 0]

\* counts that take every affected row for an inserted one
M_UpsertCounts(affectedRows, length) ==
  [inserted |-> affectedRows, updated |-> Max(affectedRows - length, 0),
   skipped |-> 0, errors |-> 0]

\* the counts upsertRecords derives from affectedRows
UpsertCounts(affectedRows, length) ==
  LET updated == affectedRows - length
      inserted == length - Max(updated, 0)
  IN [inserted |-> Max(inserted, 0), updated |-> Max(updated, 0),
      skipped |-> 0, errors |-> 0]

\* a catch without connection.rollback(): the transaction stays open and the
\* connection goes on with the rows the transaction wrote
M_Rollback(before, working) == [table |-> working, open |-> TRUE]

\* connection.rollback() in the catch: the rows the transaction wrote are
\* discarded and the transaction is over (when rollback itself throws the
\* connection is lost, and the server discards the transaction)
Rollback(before, working) == [table |-> before, open |-> FALSE]

\* upsertRecords(records): beginTransaction, execute, commit. ok = the
\* transaction commits, ~ok = execute or commit throws: the catch rolls the
\* transaction back and rethrows. open = a transaction is left open
upsertRecords(table, records, t, ok, same) ==
  IF records = <<>>
  THEN [table |-> table, raised |-> FALSE, res |-> ZeroResult, open |-> FALSE]
  ELSE LET working == UpsertRows(table, records, t)
           undone == Rollback(table, working)
       IN IF ok
          THEN [table |-> working, raised |-> FALSE,
                res |-> UpsertCounts(AffectedRows(table, records, t, same),
                                     Len(records)),
                open |-> FALSE]
          ELSE [table |-> undone.table, raised |-> TRUE,
                res |-> [ZeroResult EXCEPT !.errors = Len(records)],
                open |-> undone.open]

Slice(s, from, to) == SubSeq(s, from + 1, IF to > Len(s) THEN Len(s) ELSE to)

AddResult(a, b) ==
  [inserted |-> a.inserted + b.inserted, updated |-> a.updated + b.updated,
   skipped |-> a.skipped + b.skipped, errors |-> a.errors + b.errors]

\* one transaction for all the records: any failing chunk fails them all
M_batchUpsertFrom(table, records, batchSize, i, total, t, fails, same) ==
  LET out == upsertRecords(table, records, t, fails = {}, same)
  IN [table |-> out.table,
      res |-> IF out.raised THEN [total EXCEPT !.errors = @ + Len(records)]
              ELSE AddResult(total, out.res)]

\* batchUpsertRecords(records, batchSize) from index i on: fails is the set of
\* chunk start indexes whose transaction fails
RECURSIVE batchUpsertFrom(_, _, _, _, _, _, _, _)
batchUpsertFrom(table, records, batchSize, i, total, t, fails, same) ==
  IF ~(i < Len(records)) THEN [table |-> table, res |-> total]
  ELSE LET batch == Slice(records, i, i + batchSize)
           out == upsertRecords(table, batch, t, i \notin fails, same)
           tally == IF out.raised
                    THEN [total EXCEPT !.errors = @ + Len(batch)]
                    ELSE AddResult(total, out.res)
       IN batchUpsertFrom(out.table, records, batchSize, i + batchSize,
                          tally, t, fails, same)

batchUpsertRecords(table, records, batchSize, t, fails, same) ==
  batchUpsertFrom(table, records, batchSize, 0, ZeroResult, t, fails, same)

\* ------------------------------------------------------------------ etl_checkpoints, etl_logs
\* a lookup that ignores the stored row
M_getCheckpoint(table, sourceType, sourceRef, ok) == 0

\* getCheckpoint: the stored last_offset, 0 when no row exists or the lookup
\* throws (ok = FALSE)
getCheckpoint(table, sourceType, sourceRef, ok) ==
  IF ok /\ table[<<sourceType, sourceRef>>] /= None
  THEN table[<<sourceType, sourceRef>>][1] ELSE 0

\* saveCheckpoint: the upsert of the row, nothing when the statement throws
saveCheckpoint(table, sourceType, sourceRef, offset, ok) ==
  IF ok THEN [table EXCEPT ![<<sourceType, sourceRef>>] = Some(offset)] ELSE table

\* logEtlActivity: the INSERT of one row, nothing when the statement throws
logEtlActivity(table, logEntry, ok) ==
  IF ok THEN Append(table, logEntry) ELSE table

LogEntry(sourceType, sourceRef, status, total, new, updated, error) ==
  [source_type |-> sourceType, source_ref |-> sourceRef, status |-> status,
   total_records |-> total, new_records |-> new, updated_records |-> updated,
   error_message |-> error]

\* ------------------------------------------------------------------ loader
DefaultBatchSize == 100
DefaultMaxRetries == 3
DefaultRetryDelay == 1000
PageDelay == 100

\* CKANApiLoader.constructor: x || default
\* a loader that ignores settings.batch_size
M_LoaderBatchSize(settings) == DefaultBatchSize

LoaderBatchSize(settings) ==
  IF settings.batch_size = 0 THEN DefaultBatchSize ELSE settings.batch_size
LoaderMaxRetries(settings) ==
  IF settings.max_retries = 0 THEN DefaultMaxRetries ELSE settings.max_retries
LoaderRetryDelay(settings) ==
  IF settings.retry_delay = 0 THEN DefaultRetryDelay ELSE settings.retry_delay

RECURSIVE Pow2(_)
Pow2(n) == IF n <= 0 THEN 1 ELSE 2 * Pow2(n - 1)

\* the delay before the next attempt: retryDelay * Math.pow(2, attempt - 1)
BackoffDelay(settings, attempt) == LoaderRetryDelay(settings) * Pow2(attempt - 1)

\* the result member of the datastore's answer to ?offset=&limit=
PageOf(records, offset, limit) ==
  [records |-> IF offset >= Len(records) THEN <<>>
               ELSE Slice(records, offset, offset + limit),
   total |-> Len(records)]

\* ------------------------------------------------------------------ runner
\* records.filter(r => !r.tahun || r.tahun >= options.since)
RECURSIVE SinceFilter(_, _)
SinceFilter(records, since) ==
  IF records = <<>> THEN <<>>
  ELSE LET r == Head(records)
       IN (IF r.tahun = None \/ r.tahun = Some(0) \/ r.tahun[1] >= since
           THEN <<r>> ELSE <<>>) \o SinceFilter(Tail(records), since)

\* the filters of processApiSource / processCsvSource: an option that is 0 or
\* absent (None) is not applied
ApplyFilters(records, options) ==
  LET bySince == IF options.since /= None /\ options.since /= Some(0)
                 THEN SinceFilter(records, options.since[1]) ELSE records
  IN IF options.limit /= None /\ options.limit /= Some(0)
     THEN Slice(bySince, 0, options.limit[1]) ELSE bySince

\* ------------------------------------------------------------------ sample sources
\* the API source of the model, in mode long and in mode wide
LongMapping ==
  [elemen_field |-> <<"Elemen">>, tahun_field |-> <<"Tahun">>,
   nilai_field |-> <<"Nilai">>, satuan_field |-> <<"Satuan">>,
   year_column_regex |-> None, unit_field |-> <<>>]

WideMapping ==
  [elemen_field |-> <<"Elemen">>, tahun_field |-> <<>>, nilai_field |-> <<>>,
   satuan_field |-> <<>>, year_column_regex |-> Some(YearColumnRegex),
   unit_field |-> <<>>]

\* a mapping with the fields of neither mode
NeitherMapping == [WideMapping EXCEPT !.year_column_regex = None]

ApiSource(mapping) ==
  [kategori |-> <<"k">>, resource_id |-> <<"r">>, mapping |-> mapping]

LongRaw(elemen, tahun, nilai, satuan) ==
  JObj(<<<<"Elemen", elemen>>, <<"Tahun", tahun>>, <<"Nilai", nilai>>,
         <<"Satuan", satuan>>>>)

WideRaw(elemen, v2019, v2020, satuan) ==
  JObj(<<<<"Elemen", elemen>>, <<"Data 2019", v2019>>, <<"Data 2020", v2020>>,
         <<"Satuan", satuan>>>>)

WideRaw1(elemen, v2020) == JObj(<<<<"Elemen", elemen>>, <<"Data 2020", v2020>>>>)

Kg == JStr(<<"k", "g">>)

\* the remote resource in mode long: the second record has an empty Elemen
LongRemote ==
  << LongRaw(JStr(<<"a">>), JNum(2019), JNum(5), Kg),
     LongRaw(JStr(<<" ">>), JNum(2019), JNum(6), Kg),
     LongRaw(JStr(<<"b">>), JNum(2020), JNum(7), Kg),
     LongRaw(JStr(<<"c">>), JNull, JStr(<<"1", ",", "5", "0", "0">>), JNull),
     LongRaw(JStr(<<"d">>), JNum(2021), JNum(9), Kg) >>

\* the remote resource in mode wide: one or two year columns per record
WideRemote ==
  << WideRaw(JStr(<<"a">>), JStr(<<"1", ".", "2", "0", "0">>), JStr(<<"1", "3", "5", "0">>), Kg),
     WideRaw(JStr(<<>>), JNum(1), JNum(2), Kg),
     WideRaw1(JStr(<<"b">>), JNum(3)),
     WideRaw1(JStr(<<"c">>), JNum(4)),
     WideRaw1(JStr(<<"d">>), JNum(6)) >>

RemoteOf(mapping) ==
  SubSeq(IF mapping = LongMapping THEN LongRemote ELSE WideRemote, 1, MaxRemote)

\* the file source of the model and two files: the second lacks the Satuan column
CsvSource ==
  [kategori |-> <<"c">>, file_name |-> <<"f">>,
   mapping |-> [elemen_field |-> <<"Elemen">>, tahun_field |-> <<"Tahun">>,
                nilai_field |-> <<"Nilai">>, satuan_field |-> <<"Satuan">>]]

CsvFiles ==
  { << LongRaw(JStr(<<"x">>), JStr(<<"2", "0", "1", "9">>), JStr(<<"1", ",", "5">>), Kg),
       LongRaw(JStr(<<"y">>), JStr(<<"2", "0", "2", "1">>), JStr(<<"2">>), Kg) >>,
    << JObj(<<<<"Elemen", JStr(<<"x">>)>>, <<"Tahun", JStr(<<"2", "0", "1", "9">>)>>,
              <<"Nilai", JStr(<<"3">>)>>>>) >>,
    << LongRaw(JStr(<<>>), JStr(<<>>), JStr(<<>>), JStr(<<>>)) >> }

ApiKey == <<"api", <<"r">>>>
CsvKey == <<"csv", <<"f">>>>
NoCheckpoints == [k \in {ApiKey, CsvKey} |-> None]

\* the CLI options of a run
OptionSets ==
  { [since |-> None, limit |-> None, dryRun |-> FALSE],
    [since |-> Some(2020), limit |-> None, dryRun |-> FALSE],
    [since |-> None, limit |-> Some(1), dryRun |-> FALSE],
    [since |-> None, limit |-> None, dryRun |-> TRUE] }

SettingsSets ==
  { [batch_size |-> b, max_retries |-> r[1], retry_delay |-> r[2],
     enable_checkpoints |-> e] :
      b \in 1..MaxBatchSize, r \in {<<0, 0>>, <<2, 5>>}, e \in BOOLEAN }

IdleRun ==
  [pc |-> "idle", kind |-> "none", options |-> [since |-> None, limit |-> None, dryRun |-> FALSE],
   startOffset |-> 0, offset |-> 0, attempt |-> 0, allRecords |-> <<>>,
   waits |-> <<>>, requested |-> FALSE, lastRequest |-> None, delays |-> 0, reads |-> 0, writes |-> 0,
   logOk |-> TRUE, lookupOk |-> TRUE, exhausted |-> FALSE, error |-> "none", outcome |-> "none",
   valid |-> None, loaded |-> FALSE,
   result |-> ZeroResult, upserted |-> <<>>, factsBefore |-> <<>>,
   checkpointBefore |-> None]

NoHist == [nruns |-> 0, handed |-> {}, killed |-> FALSE]

\* no EtlRunner.run under way
NoJob == [mode |-> "none", only |-> None, sourceId |-> None, pc |-> "idle",
          i |-> 0, attempted |-> <<>>, active |-> {}, connected |-> FALSE,
          error |-> "none"]

\* remote records of the store specification: the second is the first with
\* one more member, the third is the first after its nilai changed, the last
\* two differ in elemen, tahun, nilai and satuan and have the same hash input
\* "k|a|1|null|2|kg|r"
StoreRaws ==
  << LongRaw(JStr(<<"a">>), JNum(1), JNum(2), JStr(<<"k", "g">>)),
     JObj(Append(LongRaw(JStr(<<"a">>), JNum(1), JNum(2), JStr(<<"k", "g">>))[2],
                 <<"_id", JNum(7)>>)),
     LongRaw(JStr(<<"a">>), JNum(1), JNum(3), JStr(<<"k", "g">>)),
     LongRaw(JStr(<<"a", "|", "1">>), JNull, JNum(2), JStr(<<"k", "g">>)),
     LongRaw(JStr(<<"a">>), JNum(1), JNull, JStr(<<"2", "|", "k", "g">>)) >>

\* the canonical records the transform hands to the store for them
StoreRecords ==
  LET recs == processRecords(StoreRaws, ApiSource(LongMapping))
  IN {recs[i] : i \in DOMAIN recs}

RECURSIVE SeqsUpTo(_, _)
SeqsUpTo(S, n) ==
  IF n = 0 THEN {<<>>}
  ELSE LET shorter == SeqsUpTo(S, n - 1)
       IN shorter \cup {Append(s, x) : s \in shorter, x \in S}

StoreBatches == SeqsUpTo(StoreRecords, MaxBatch) \ {<<>>}

\* the start indexes of the chunks of batchUpsertRecords
ChunkStarts(length, batchSize) == {i \in 0..(length - 1) : i % batchSize = 0}

NoCall == [op |-> "none", records |-> <<>>, raised |-> FALSE, res |-> ZeroResult]

\* what is kept of the call before the last one
Brief(c) == [op |-> c.op, records |-> c.records, raised |-> c.raised]

StoreInit ==
  /\ facts = <<>>
  /\ checkpoints = NoCheckpoints
  /\ etl_logs = <<>>
  /\ now = 0
  /\ foundRows \in {0, 1}
  /\ call = NoCall
  /\ prev = Brief(NoCall)
  /\ ncalls = 0
  /\ env = [settings |-> [batch_size |-> 1, max_retries |-> 0, retry_delay |-> 0,
                          enable_checkpoints |-> TRUE],
            source |-> ApiSource(LongMapping), remote |-> <<>>]
  /\ run = IdleRun
  /\ hist = NoHist
  /\ connection = "open"
  /\ job = NoJob

Tick ==
  /\ now < MaxClock
  /\ now' = now + 1
  /\ UNCHANGED <<facts, checkpoints, etl_logs, foundRows, call, prev, ncalls,
                 env, connection, job, run, hist>>

UpsertRecordsCall ==
  /\ ncalls < MaxCalls
  /\ \E records \in StoreBatches, ok \in BOOLEAN :
       LET out == upsertRecords(facts, records, now, ok, foundRows)
       IN /\ facts' = out.table
          /\ call' = [op |-> "upsertRecords", records |-> records,
                      raised |-> out.raised, res |-> out.res, open |-> out.open]
  /\ prev' = Brief(call)
  /\ ncalls' = ncalls + 1
  /\ UNCHANGED <<checkpoints, etl_logs, now, foundRows, env, connection, job, run, hist>>

BatchUpsertRecordsCall ==
  /\ ncalls < MaxCalls
  /\ \E records \in StoreBatches, batchSize \in 1..MaxBatch :
       \E fails \in SUBSET ChunkStarts(Len(records), batchSize) :
         LET out == batchUpsertRecords(facts, records, batchSize, now, fails, foundRows)
         IN /\ facts' = out.table
            /\ call' = [op |-> "batchUpsertRecords", records |-> records,
                        raised |-> FALSE, res |-> out.res,
                        batchSize |-> batchSize, fails |-> fails]
  /\ prev' = Brief(call)
  /\ ncalls' = ncalls + 1
  /\ UNCHANGED <<checkpoints, etl_logs, now, foundRows, env, connection, job, run, hist>>

StoreNext == Tick \/ UpsertRecordsCall \/ BatchUpsertRecordsCall

SpecStore == StoreInit /\ [][StoreNext]_vars

\* ------------------------------------------------------------------ run specification
RunInit ==
  /\ facts = <<>>
  /\ checkpoints = NoCheckpoints
  /\ etl_logs = <<>>
  /\ now = 0
  /\ foundRows \in {0, 1}
  /\ call = NoCall
  /\ prev = Brief(NoCall)
  /\ ncalls = 0
  /\ \E settings \in SettingsSets,
        mapping \in {LongMapping, WideMapping, NeitherMapping} :
       env = [settings |-> settings, source |-> ApiSource(mapping),
              remote |-> RemoteOf(mapping)]
  /\ run = IdleRun
  /\ hist = NoHist
  /\ connection = "open"
  /\ job = NoJob

Rid == env.source.resource_id

\* the remote offsets all of whose canonical records are among `passed`
HandedOffsets(passed, from) ==
  {k \in 0..(Len(env.remote) - 1) :
     /\ k >= from
     /\ LET out == transformRecord(env.remote[k + 1], env.source)
        IN \A i \in DOMAIN out : \E j \in DOMAIN passed : passed[j] = out[i]}

\* what is kept of a run once the processing of its source is over
EndRun(r, outcome) ==
  [IdleRun EXCEPT !.kind = r.kind, !.outcome = outcome, !.error = r.error,
                  !.options.dryRun = r.options.dryRun, !.logOk = r.logOk,
                  !.valid = r.valid, !.loaded = r.loaded,
                  !.exhausted = r.exhausted,
                  !.offset = IF r.exhausted THEN r.offset ELSE 0,
                  !.startOffset = IF r.exhausted THEN r.startOffset ELSE 0,
                  !.factsBefore = IF outcome = "failed" \/ r.exhausted
                                  THEN r.factsBefore ELSE <<>>,
                  !.checkpointBefore = IF outcome = "failed" \/ r.exhausted
                                       THEN r.checkpointBefore ELSE None]

\* processApiSource up to the call of loader.loadData: the 'started' log row
\* and the checkpoint lookup
StartApiRun ==
  /\ run.pc = "idle"
  /\ hist.nruns < MaxRuns
  /\ \E options \in OptionSets, logOk \in BOOLEAN, lookupOk \in BOOLEAN :
       LET enabled == env.settings.enable_checkpoints
           startOffset == IF enabled
                          THEN getCheckpoint(checkpoints, "api", Rid, lookupOk)
                          ELSE 0
       IN /\ enabled \/ lookupOk
          /\ etl_logs' = logEtlActivity(etl_logs,
                           LogEntry("api", Rid, "started", 0, 0, 0, "none"), logOk)
          /\ run' = [IdleRun EXCEPT !.pc = "fetch", !.kind = "api",
                       !.options = options, !.startOffset = startOffset,
                       !.offset = startOffset, !.attempt = 1,
                       !.reads = IF enabled THEN 1 ELSE 0,
                       !.logOk = logOk, !.lookupOk = lookupOk,
                       !.outcome = "running",
                       !.factsBefore = facts,
                       !.checkpointBefore = checkpoints[ApiKey]]
  /\ hist' = [hist EXCEPT !.nruns = @ + 1]
  /\ UNCHANGED <<facts, checkpoints, now, foundRows, call, prev, ncalls, env, connection, job>>

\* a loadData that swallows the error and returns the records fetched so far
M_LoadDataThrows(r, error) == [r EXCEPT !.pc = "loaded", !.error = error]

\* loadData rethrows: its allRecords are lost, processApiSource's catch runs
LoadDataThrows(r, error) ==
  [r EXCEPT !.pc = "catch", !.error = error, !.allRecords = <<>>]

\* axios.get(`${baseUrl}?resource_id=...&offset=${offset}&limit=${limit}`) is
\* sent with offset = the loop's offset and limit = this.batchSize
Requesting(r) ==
  [r EXCEPT !.requested = TRUE,
            !.lastRequest = Some(<<r.offset, LoaderBatchSize(env.settings)>>)]

\* one attempt of fetchDataWithRetry in which axios.get throws
FetchError ==
  /\ run.pc = "fetch"
  /\ LET made == Requesting(run)
     IN run' = IF run.attempt < LoaderMaxRetries(env.settings)
               THEN [made EXCEPT !.pc = "backoff",
                       !.waits = Append(@, BackoffDelay(env.settings, run.attempt))]
               ELSE LoadDataThrows([made EXCEPT !.exhausted = TRUE], "fetch")
  /\ UNCHANGED <<facts, checkpoints, etl_logs, now, foundRows, call, prev, ncalls,
                 env, connection, job, hist>>

\* a retry that starts the count of attempts over
M_BackoffDone ==
  /\ run.pc = "backoff"
  /\ run' = [run EXCEPT !.pc = "fetch", !.attempt = 1, !.waits = <<>>]
  /\ UNCHANGED <<facts, checkpoints, etl_logs, now, foundRows, call, prev, ncalls,
                 env, connection, job, hist>>

\* sleep(delay) is over: the next attempt
BackoffDone ==
  /\ run.pc = "backoff"
  /\ run' = [run EXCEPT !.pc = "fetch", !.attempt = @ + 1]
  /\ UNCHANGED <<facts, checkpoints, etl_logs, now, foundRows, call, prev, ncalls,
                 env, connection, job, hist>>

\* one attempt in which axios.get returns a body with success: false
FetchUnsuccessful ==
  /\ run.pc = "fetch"
  /\ run' = LoadDataThrows(Requesting(run), "unsuccessful")
  /\ UNCHANGED <<facts, checkpoints, etl_logs, now, foundRows, call, prev, ncalls,
                 env, connection, job, hist>>

\* a loop body that sleeps after every page, the last one too
M_FetchPage ==
  /\ run.pc = "fetch"
  /\ LET batchSize == LoaderBatchSize(env.settings)
         page == PageOf(env.remote, run.offset, batchSize)
         made == Requesting(run)
     IN run' = IF page.records = <<>>
               THEN [made EXCEPT !.pc = "loaded"]
               ELSE [made EXCEPT
                       !.allRecords = @ \o processRecords(page.records, env.source),
                       !.offset = run.offset + batchSize,
                       !.pc = "delay"]
  /\ UNCHANGED <<facts, checkpoints, etl_logs, now, foundRows, call, prev, ncalls,
                 env, connection, job, hist>>

\* one attempt in which axios.get returns a page, and the rest of the loop body
FetchPage ==
  /\ run.pc = "fetch"
  /\ LET batchSize == LoaderBatchSize(env.settings)
         page == PageOf(env.remote, run.offset, batchSize)
         offset == run.offset + batchSize
         made == Requesting(run)
     IN run' = IF page.records = <<>>
               THEN [made EXCEPT !.pc = "loaded"]
               ELSE [made EXCEPT
                       !.allRecords = @ \o processRecords(page.records, env.source),
                       !.offset = offset,
                       !.pc = IF offset < page.total THEN "delay" ELSE "loaded"]
  /\ UNCHANGED <<facts, checkpoints, etl_logs, now, foundRows, call, prev, ncalls,
                 env, connection, job, hist>>

\* a loop body that saves the offset reached after every page
M_DelayDone ==
  /\ run.pc = "delay"
  /\ checkpoints' = saveCheckpoint(checkpoints, "api", Rid, run.offset, TRUE)
  /\ run' = [run EXCEPT !.pc = "fetch", !.attempt = 1, !.waits = <<>>,
                        !.delays = @ + 1, !.writes = @ + 1]
  /\ UNCHANGED <<facts, etl_logs, now, foundRows, call, prev, ncalls, env,
                 connection, job, hist>>

\* sleep(100) is over: the next page
DelayDone ==
  /\ run.pc = "delay"
  /\ run' = [run EXCEPT !.pc = "fetch", !.attempt = 1, !.waits = <<>>,
                        !.delays = @ + 1]
  /\ UNCHANGED <<facts, checkpoints, etl_logs, now, foundRows, call, prev, ncalls,
                 env, connection, job, hist>>

\* a catch that writes the 'failed' log row and swallows the error
M_CatchApi ==
  /\ run.pc = "catch"
  /\ etl_logs' = logEtlActivity(etl_logs,
                   LogEntry("api", Rid, "failed", 0, 0, 0, run.error), run.logOk)
  /\ run' = EndRun(run, "returned")
  /\ UNCHANGED <<facts, checkpoints, now, foundRows, call, prev, ncalls, env,
                 connection, job, hist>>

\* the catch of processApiSource: the 'failed' log row, then rethrow
CatchApi ==
  /\ run.pc = "catch"
  /\ etl_logs' = logEtlActivity(etl_logs,
                   LogEntry("api", Rid, "failed", 0, 0, 0, run.error), run.logOk)
  /\ run' = EndRun(run, "failed")
  /\ UNCHANGED <<facts, checkpoints, now, foundRows, call, prev, ncalls, env,
                 connection, job, hist>>

\* records.length === 0: return
ApiNoRecords ==
  /\ run.pc = "loaded"
  /\ run.allRecords = <<>>
  /\ run' = EndRun(run, "returned")
  /\ UNCHANGED <<facts, checkpoints, etl_logs, now, foundRows, call, prev, ncalls,
                 env, connection, job, hist>>

\* a dry run that goes on to batchUpsertRecords
M_ApiDryRun ==
  /\ run.pc = "loaded"
  /\ run.allRecords /= <<>>
  /\ run.options.dryRun
  /\ facts' = batchUpsertRecords(facts, ApplyFilters(run.allRecords, run.options),
                                 env.settings.batch_size, now, {}, foundRows).table
  /\ run' = EndRun(run, "returned")
  /\ UNCHANGED <<checkpoints, etl_logs, now, foundRows, call, prev, ncalls, env,
                 connection, job, hist>>

\* options.dryRun: return after the filters
ApiDryRun ==
  /\ run.pc = "loaded"
  /\ run.allRecords /= <<>>
  /\ run.options.dryRun
  /\ run' = EndRun(run, "returned")
  /\ UNCHANGED <<facts, checkpoints, etl_logs, now, foundRows, call, prev, ncalls,
                 env, connection, job, hist>>

\* the filters and batchUpsertRecords(filteredRecords, settings.batch_size)
ApiUpsert ==
  /\ run.pc = "loaded"
  /\ run.allRecords /= <<>>
  /\ ~run.options.dryRun
  /\ LET filtered == ApplyFilters(run.allRecords, run.options)
         batchSize == env.settings.batch_size
     IN \E fails \in SUBSET ChunkStarts(Len(filtered), batchSize) :
          LET out == batchUpsertRecords(facts, filtered, batchSize, now, fails,
                                        foundRows)
          IN /\ facts' = out.table
             /\ run' = [run EXCEPT !.pc = "checkpoint", !.result = out.res,
                                   !.upserted = filtered]
             /\ hist' = [hist EXCEPT !.handed =
                           @ \cup HandedOffsets(filtered, run.startOffset)]
  /\ UNCHANGED <<checkpoints, etl_logs, now, foundRows, call, prev, ncalls, env, connection, job>>

\* the process is terminated inside batchUpsertRecords, after `chunks` chunks
\* were committed and before the last one
ApiKilledInUpsert ==
  /\ run.pc = "loaded"
  /\ run.allRecords /= <<>>
  /\ ~run.options.dryRun
  /\ LET filtered == ApplyFilters(run.allRecords, run.options)
         batchSize == env.settings.batch_size
     IN \E chunks \in 1..Len(filtered) :
          LET done == Slice(filtered, 0, chunks * batchSize)
          IN /\ Len(done) < Len(filtered)
             /\ facts' = batchUpsertRecords(facts, done, batchSize, now, {},
                                            foundRows).table
             /\ run' = EndRun(run, "killed")
             /\ hist' = [hist EXCEPT !.killed = TRUE, !.handed =
                           @ \cup HandedOffsets(done, run.startOffset)]
  /\ UNCHANGED <<checkpoints, etl_logs, now, foundRows, call, prev, ncalls, env, connection, job>>

\* if (enable_checkpoints && records.length > 0) saveCheckpoint(...)
SaveCheckpoint ==
  /\ run.pc = "checkpoint"
  /\ \E ok \in BOOLEAN :
       IF env.settings.enable_checkpoints /\ Len(run.allRecords) > 0
       THEN /\ checkpoints' = saveCheckpoint(checkpoints, "api", Rid,
                                run.startOffset + Len(run.allRecords), ok)
            /\ run' = [run EXCEPT !.pc = "logdone", !.writes = @ + 1]
       ELSE /\ ok
            /\ checkpoints' = checkpoints
            /\ run' = [run EXCEPT !.pc = "logdone"]
  /\ UNCHANGED <<facts, etl_logs, now, foundRows, call, prev, ncalls, env,
                 connection, job, hist>>

\* the 'completed' log row: processApiSource returns
LogCompleted ==
  /\ run.pc = "logdone"
  /\ etl_logs' = logEtlActivity(etl_logs,
                   LogEntry("api", Rid, "completed", Len(run.allRecords),
                            run.result.inserted, run.result.updated, "none"),
                   run.logOk)
  /\ run' = EndRun(run, "completed")
  /\ UNCHANGED <<facts, checkpoints, now, foundRows, call, prev, ncalls, env,
                 connection, job, hist>>

\* the process is terminated while a source is being processed
Kill ==
  /\ run.pc /= "idle"
  /\ run' = EndRun(run, "killed")
  /\ hist' = [hist EXCEPT !.killed = TRUE]
  /\ UNCHANGED <<facts, checkpoints, etl_logs, now, foundRows, call, prev, ncalls,
                 env, connection, job>>

\* validateCsvStructure and loadData of the file loader on each sample file
CsvValidation == [rows \in CsvFiles |-> validateCsvStructure(rows, CsvSource)]

CsvLoadData ==
  [rows \in CsvFiles |-> csvProcessRecords(rows, CsvSource, CsvSource.file_name)]

M_ValidationFailed(validation) == FALSE

\* if (!validation.isValid) throw new Error('CSV validation failed: ...')
ValidationFailed(validation) == ~validation

\* processCsvSource as a whole, on the file `rows`: loadOk = loader.loadData
\* returns, fails = the chunks whose transaction fails
processCsvSource(rows, options, loadOk, fails, logOk) ==
  LET fileName == CsvSource.file_name
      checked == [IdleRun EXCEPT !.kind = "csv", !.options = options,
                                 !.logOk = logOk, !.factsBefore = facts,
                                 !.valid = Some(CsvValidation[rows])]
      begun == [checked EXCEPT !.loaded = TRUE]
      started == logEtlActivity(etl_logs,
                   LogEntry("csv", fileName, "started", 0, 0, 0, "none"), logOk)
      failed(r, logs, error) ==
        [facts |-> facts,
         etl_logs |-> logEtlActivity(logs,
                        LogEntry("csv", fileName, "failed", 0, 0, 0, error), logOk),
         run |-> EndRun([r EXCEPT !.error = error], "failed")]
      records == CsvLoadData[rows]
      filtered == ApplyFilters(records, options)
      out == batchUpsertRecords(facts, filtered, env.settings.batch_size, now,
                                fails, foundRows)
  IN IF ValidationFailed(CsvValidation[rows]) THEN failed(checked, etl_logs, "validation")
     ELSE IF ~loadOk THEN failed(begun, started, "load")
     ELSE IF records = <<>> \/ options.dryRun
     THEN [facts |-> facts, etl_logs |-> started,
           run |-> EndRun(begun, "returned")]
     ELSE [facts |-> out.table,
           etl_logs |-> logEtlActivity(started,
                          LogEntry("csv", fileName, "completed", Len(records),
                                   out.res.inserted, out.res.updated, "none"),
                          logOk),
           run |-> EndRun(begun, "completed")]

ProcessCsvSource ==
  /\ run.pc = "idle"
  /\ hist.nruns < MaxRuns
  /\ \E rows \in CsvFiles, options \in OptionSets, loadOk \in BOOLEAN,
        logOk \in BOOLEAN :
       \E fails \in SUBSET ChunkStarts(Len(CsvLoadData[rows]),
                                       env.settings.batch_size) :
         LET out == processCsvSource(rows, options, loadOk, fails, logOk)
         IN /\ facts' = out.facts
            /\ etl_logs' = out.etl_logs
            /\ run' = out.run
  /\ hist' = [hist EXCEPT !.nruns = @ + 1]
  /\ UNCHANGED <<checkpoints, now, foundRows, call, prev, ncalls, env, connection, job>>

RunNext ==
  \/ StartApiRun \/ FetchError \/ BackoffDone \/ FetchUnsuccessful \/ FetchPage
  \/ DelayDone \/ CatchApi \/ ApiNoRecords \/ ApiDryRun \/ ApiUpsert
  \/ ApiKilledInUpsert \/ SaveCheckpoint \/ LogCompleted \/ Kill
  \/ ProcessCsvSource

SpecRun == RunInit /\ [][RunNext]_vars

\* ------------------------------------------------------------------ loop specification
\* The two loops of the processing of a source, step by step: the page loop of
\* CKANApiLoader.loadData and the chunk loop of
\* DatabaseManager.batchUpsertRecords, with every batch_size the
\* configuration file can hold from 0 on (loadConfig checks nothing).
LoopInit ==
  /\ facts = <<>>
  /\ checkpoints = NoCheckpoints
  /\ etl_logs = <<>>
  /\ now = 0
  /\ foundRows \in {0, 1}
  /\ call = NoCall
  /\ prev = Brief(NoCall)
  /\ ncalls = 0
  /\ \E b \in 0..MaxBatch, r \in {<<0, 0>>, <<2, 5>>} :
       env = [settings |-> [batch_size |-> b, max_retries |-> r[1],
                            retry_delay |-> r[2], enable_checkpoints |-> TRUE],
              source |-> ApiSource(LongMapping), remote |-> RemoteOf(LongMapping)]
  /\ run = IdleRun
  /\ hist = NoHist
  /\ connection = "open"
  /\ job = NoJob

\* loader.loadData(sourceConfig, startOffset)
LoadDataCall ==
  /\ run.pc = "idle" /\ run.outcome = "none" /\ call = NoCall
  /\ \E startOffset \in 0..(MaxRemote + 1) :
       run' = [IdleRun EXCEPT !.pc = "fetch", !.kind = "api",
                 !.startOffset = startOffset, !.offset = startOffset,
                 !.attempt = 1, !.outcome = "running"]
  /\ UNCHANGED <<facts, checkpoints, etl_logs, now, foundRows, call, prev, ncalls,
                 env, connection, job, hist>>

\* dbManager.batchUpsertRecords(records, settings.batch_size) up to the loop:
\* attempted are the records handed to upsertRecords so far
BatchUpsertCall ==
  /\ run.pc = "idle" /\ run.outcome = "none" /\ call = NoCall
  /\ \E records \in StoreBatches \cup {<<>>} :
       call' = [op |-> "batchUpsertRecords", records |-> records, raised |-> FALSE,
                res |-> ZeroResult, batchSize |-> env.settings.batch_size,
                i |-> 0, attempted |-> <<>>, pc |-> "loop"]
  /\ UNCHANGED <<facts, checkpoints, etl_logs, now, foundRows, prev, ncalls,
                 env, connection, job, run, hist>>

\* one iteration of for (let i = 0; i < records.length; i += batchSize)
BatchChunk ==
  /\ call.op = "batchUpsertRecords" /\ call.pc = "loop"
  /\ call.i < Len(call.records)
  /\ \E ok \in BOOLEAN :
       LET batch == Slice(call.records, call.i, call.i + call.batchSize)
           out == upsertRecords(facts, batch, now, ok, foundRows)
       IN /\ facts' = out.table
          /\ call' = [call EXCEPT
                        !.i = call.i + call.batchSize,
                        !.attempted = call.attempted \o batch,
                        !.res = IF out.raised
                                THEN [call.res EXCEPT !.errors = @ + Len(batch)]
                                ELSE AddResult(call.res, out.res)]
  /\ UNCHANGED <<checkpoints, etl_logs, now, foundRows, prev, ncalls,
                 env, connection, job, run, hist>>

\* the loop condition fails: return totalResult
BatchReturn ==
  /\ call.op = "batchUpsertRecords" /\ call.pc = "loop"
  /\ ~(call.i < Len(call.records))
  /\ call' = [call EXCEPT !.pc = "returned"]
  /\ UNCHANGED <<facts, checkpoints, etl_logs, now, foundRows, prev, ncalls,
                 env, connection, job, run, hist>>

LoopNext ==
  \/ LoadDataCall \/ FetchError \/ BackoffDone \/ FetchUnsuccessful \/ FetchPage
  \/ DelayDone \/ BatchUpsertCall \/ BatchChunk \/ BatchReturn

\* every HTTP attempt returns or fails, every sleep ends, and every awaited
\* upsertRecords returns or raises
SpecLoopFair ==
  /\ LoopInit /\ [][LoopNext]_vars
  /\ WF_vars(FetchError \/ FetchUnsuccessful \/ FetchPage)
  /\ WF_vars(BackoffDone) /\ WF_vars(DelayDone)
  /\ WF_vars(BatchChunk) /\ WF_vars(BatchReturn)

\* ------------------------------------------------------------------ manager specification
\* DatabaseManager as an object, from its construction on: connect,
\* disconnect and the checkpoint and log methods called in any order.

\* if (!this.connection) throw new Error('Database connection not established')
NotEstablished(conn) == conn = "null"

\* DatabaseManager.getCheckpoint on a manager whose connection is conn
GetCheckpointOn(conn, table, key, ok) ==
  IF NotEstablished(conn) THEN [raised |-> TRUE, offset |-> None]
  ELSE [raised |-> FALSE, offset |-> Some(getCheckpoint(table, key[1], key[2], ok))]

\* DatabaseManager.saveCheckpoint on a manager whose connection is conn
SaveCheckpointOn(conn, table, key, offset, ok) ==
  IF NotEstablished(conn) THEN [raised |-> TRUE, table |-> table]
  ELSE [raised |-> FALSE, table |-> saveCheckpoint(table, key[1], key[2], offset, ok)]

\* DatabaseManager.logEtlActivity on a manager whose connection is conn
LogEtlActivityOn(conn, table, logEntry, ok) ==
  IF NotEstablished(conn) THEN [raised |-> TRUE, table |-> table]
  ELSE [raised |-> FALSE, table |-> logEtlActivity(table, logEntry, ok)]

ManagerInit ==
  /\ facts = <<>>
  /\ checkpoints = NoCheckpoints
  /\ etl_logs = <<>>
  /\ now = 0
  /\ foundRows = 0
  /\ call = NoCall
  /\ prev = Brief(NoCall)
  /\ ncalls = 0
  /\ env = [settings |-> [batch_size |-> 1, max_retries |-> 0, retry_delay |-> 0,
                          enable_checkpoints |-> TRUE],
            source |-> ApiSource(LongMapping), remote |-> <<>>]
  /\ run = IdleRun
  /\ hist = NoHist
  /\ connection = "null"
  /\ job = NoJob

\* connect(): createConnection returns (ok) or throws
Connect ==
  /\ \E ok \in BOOLEAN :
       /\ connection' = IF ok THEN "open" ELSE connection
       /\ call' = [op |-> "connect", raised |-> ~ok]
  /\ UNCHANGED <<facts, checkpoints, etl_logs, now, foundRows, prev, ncalls, env,
                 run, hist, job>>

\* disconnect(): nothing without a connection, else connection.end() returns
\* (ok) or throws and the connection is kept
Disconnect ==
  /\ \E ok \in BOOLEAN :
       /\ connection' = IF connection /= "null" /\ ok THEN "null" ELSE connection
       /\ call' = [op |-> "disconnect", raised |-> connection /= "null" /\ ~ok]
  /\ UNCHANGED <<facts, checkpoints, etl_logs, now, foundRows, prev, ncalls, env,
                 run, hist, job>>

GetCheckpointCall ==
  /\ ncalls < MaxCalls
  /\ \E key \in {ApiKey, CsvKey}, ok \in BOOLEAN :
       LET out == GetCheckpointOn(connection, checkpoints, key, ok)
       IN call' = [op |-> "getCheckpoint", key |-> key, ok |-> ok,
                   raised |-> out.raised, offset |-> out.offset]
  /\ ncalls' = ncalls + 1
  /\ UNCHANGED <<facts, checkpoints, etl_logs, now, foundRows, prev, env, run,
                 hist, connection, job>>

SaveCheckpointCall ==
  /\ ncalls < MaxCalls
  /\ \E key \in {ApiKey, CsvKey}, offset \in 0..MaxRemote, ok \in BOOLEAN :
       LET out == SaveCheckpointOn(connection, checkpoints, key, offset, ok)
       IN /\ checkpoints' = out.table
          /\ call' = [op |-> "saveCheckpoint", key |-> key, ok |-> ok,
                      raised |-> out.raised, offset |-> Some(offset)]
  /\ ncalls' = ncalls + 1
  /\ UNCHANGED <<facts, etl_logs, now, foundRows, prev, env, run, hist,
                 connection, job>>

LogEtlActivityCall ==
  /\ ncalls < MaxCalls
  /\ \E status \in {"started", "completed", "failed"}, ok \in BOOLEAN :
       LET entry == LogEntry("api", ApiKey[2], status, 0, 0, 0,
                             IF status = "failed" THEN "fetch" ELSE "none")
           out == LogEtlActivityOn(connection, etl_logs, entry, ok)
       IN /\ etl_logs' = out.table
          /\ call' = [op |-> "logEtlActivity", entry |-> entry, ok |-> ok,
                      raised |-> out.raised]
  /\ ncalls' = ncalls + 1
  /\ UNCHANGED <<facts, checkpoints, now, foundRows, prev, env, run, hist,
                 connection, job>>

ManagerNext ==
  \/ Connect \/ Disconnect \/ GetCheckpointCall \/ SaveCheckpointCall
  \/ LogEtlActivityCall

SpecManager == ManagerInit /\ [][ManagerNext]_vars

\* ------------------------------------------------------------------ job specification
\* EtlRunner.run: the sources of etl.config.json processed in their order.
\* What processing one source does is the run specification; here the
\* processing of a source begins, and later returns or raises; job.active
\* holds the sources whose processing is under way.  A source is named by its
\* kategori, "a" or "b".

Kategoris == {"a", "b"}

\* the source lists a configuration can hold: up to MaxSources sources
SourceLists == UNION {[1..n -> Kategoris] : n \in 0..MaxSources}

JobModes == {"all", "api", "csv", "single", "unknown"}

JobInit ==
  /\ facts = <<>>
  /\ checkpoints = NoCheckpoints
  /\ etl_logs = <<>>
  /\ now = 0
  /\ foundRows = 0
  /\ call = NoCall
  /\ prev = Brief(NoCall)
  /\ ncalls = 0
  /\ \E sources \in SourceLists, csv_sources \in SourceLists :
       env = [sources |-> sources, csv_sources |-> csv_sources]
  /\ run = IdleRun
  /\ hist = NoHist
  /\ connection = "null"
  /\ \E mode \in JobModes, only \in {None} \cup {Some(k) : k \in Kategoris},
        sourceId \in {None, Some("a"), Some("x")} :
       /\ mode /= "single" => sourceId = None
       /\ job = [NoJob EXCEPT !.mode = mode, !.only = only, !.sourceId = sourceId]

\* catch: the error is raised again; finally: dbManager.disconnect()
Throw(j, error) == [j EXCEPT !.pc = "done", !.error = error]

\* if (options.only && sourceConfig.kategori !== options.only) continue
Skipped(only, kategori) == only /= None /\ only /= Some(kategori)

\* connect (connectOk: createConnection returns), testConnection (testOk),
\* then the switch on options.mode
RunBegin ==
  /\ job.pc = "idle" /\ job.mode /= "none"
  /\ \E connectOk \in BOOLEAN, testOk \in BOOLEAN :
       IF ~connectOk
       THEN /\ job' = Throw(job, "connection")
            /\ connection' = "null"
       ELSE /\ connection' = "open"
            /\ job' = LET j == [job EXCEPT !.connected = TRUE]
                      IN CASE ~testOk -> Throw(j, "connection")
                           [] job.mode \in {"all", "api"} -> [j EXCEPT !.pc = "api", !.i = 1]
                           [] job.mode = "csv" -> [j EXCEPT !.pc = "csv", !.i = 1]
                           [] job.mode = "single" -> [j EXCEPT !.pc = "single"]
                           [] OTHER -> Throw(j, "mode")
  /\ UNCHANGED <<facts, checkpoints, etl_logs, now, foundRows, call, prev, ncalls,
                 env, run, hist>>

\* the processing of a source begins
Begin(j, kind, i) ==
  [j EXCEPT !.attempted = Append(j.attempted, <<kind, i>>),
            !.active = j.active \cup {<<kind, i>>}]

\* a loop of runApiSources that does not await processApiSource
M_RunApiSource ==
  /\ job.pc = "api" /\ job.i <= Len(env.sources)
  /\ job' = IF Skipped(job.only, env.sources[job.i])
            THEN [job EXCEPT !.i = job.i + 1]
            ELSE [Begin(job, "api", job.i) EXCEPT !.i = job.i + 1]
  /\ UNCHANGED <<facts, checkpoints, etl_logs, now, foundRows, call, prev, ncalls,
                 env, run, hist, connection>>

\* one iteration of the loop of runApiSources, entered when the awaited
\* processApiSource of the iteration before has returned
RunApiSource ==
  /\ job.pc = "api" /\ job.i <= Len(env.sources)
  /\ job.active = {}
  /\ job' = IF Skipped(job.only, env.sources[job.i])
            THEN [job EXCEPT !.i = job.i + 1]
            ELSE [Begin(job, "api", job.i) EXCEPT !.i = job.i + 1]
  /\ UNCHANGED <<facts, checkpoints, etl_logs, now, foundRows, call, prev, ncalls,
                 env, run, hist, connection>>

\* processApiSource or processCsvSource returns (ok) or raises, and nothing
\* in the loops catches
SourceEnds ==
  /\ job.pc \in {"api", "csv", "single"}
  /\ \E source \in job.active, ok \in BOOLEAN :
       LET ended == [job EXCEPT !.active = job.active \ {source}]
       IN job' = IF ~ok THEN Throw(ended, "source")
                 ELSE IF job.pc = "single" THEN [ended EXCEPT !.pc = "stats"]
                 ELSE ended
  /\ UNCHANGED <<facts, checkpoints, etl_logs, now, foundRows, call, prev, ncalls,
                 env, run, hist, connection>>

\* runApiSources returns: runAll goes on to the file sources
RunApiSourcesEnd ==
  /\ job.pc = "api" /\ job.i > Len(env.sources)
  /\ job.active = {}
  /\ job' = IF job.mode = "all" THEN [job EXCEPT !.pc = "csv", !.i = 1]
            ELSE [job EXCEPT !.pc = "stats"]
  /\ UNCHANGED <<facts, checkpoints, etl_logs, now, foundRows, call, prev, ncalls,
                 env, run, hist, connection>>

\* one iteration of the loop of runCsvSources
RunCsvSource ==
  /\ job.pc = "csv" /\ job.i <= Len(env.csv_sources)
  /\ job.active = {}
  /\ job' = IF Skipped(job.only, env.csv_sources[job.i])
            THEN [job EXCEPT !.i = job.i + 1]
            ELSE [Begin(job, "csv", job.i) EXCEPT !.i = job.i + 1]
  /\ UNCHANGED <<facts, checkpoints, etl_logs, now, foundRows, call, prev, ncalls,
                 env, run, hist, connection>>

RunCsvSourcesEnd ==
  /\ job.pc = "csv" /\ job.i > Len(env.csv_sources)
  /\ job.active = {}
  /\ job' = [job EXCEPT !.pc = "stats"]
  /\ UNCHANGED <<facts, checkpoints, etl_logs, now, foundRows, call, prev, ncalls,
                 env, run, hist, connection>>

\* the first API source, else the first file source, named by options.sourceId
FoundSource(sourceId) ==
  LET api == {i \in 1..Len(env.sources) : Some(env.sources[i]) = sourceId}
      csv == {i \in 1..Len(env.csv_sources) : Some(env.csv_sources[i]) = sourceId}
      First(S) == CHOOSE i \in S : \A k \in S : i <= k
  IN IF api /= {} THEN Some(<<"api", First(api)>>)
     ELSE IF csv /= {} THEN Some(<<"csv", First(csv)>>)
     ELSE None

RunSingleSource ==
  /\ job.pc = "single" /\ job.attempted = <<>>
  /\ job' = IF job.sourceId = None THEN Throw(job, "sourceId")
            ELSE IF FoundSource(job.sourceId) = None THEN Throw(job, "notFound")
            ELSE LET found == FoundSource(job.sourceId)[1]
                 IN Begin(job, found[1], found[2])
  /\ UNCHANGED <<facts, checkpoints, etl_logs, now, foundRows, call, prev, ncalls,
                 env, run, hist, connection>>

\* showStats swallows its errors; run returns
ShowStats ==
  /\ job.pc = "stats"
  /\ job' = [job EXCEPT !.pc = "done"]
  /\ UNCHANGED <<facts, checkpoints, etl_logs, now, foundRows, call, prev, ncalls,
                 env, run, hist, connection>>

\* finally: dbManager.disconnect(), which does nothing without a connection
\* and else awaits connection.end(): it returns (ended), or it raises, the
\* connection is kept and run raises that error
RunFinally ==
  /\ job.pc = "done"
  /\ \E ended \in BOOLEAN :
       /\ connection' = IF ended THEN "null" ELSE connection
       /\ job' = [job EXCEPT !.pc = "returned",
                             !.error = IF ended \/ connection = "null" THEN @
                                       ELSE "disconnect"]
  /\ UNCHANGED <<facts, checkpoints, etl_logs, now, foundRows, call, prev, ncalls,
                 env, run, hist>>

JobNext ==
  \/ RunBegin \/ RunApiSource \/ SourceEnds \/ RunApiSourcesEnd \/ RunCsvSource
  \/ RunCsvSourcesEnd \/ RunSingleSource \/ ShowStats \/ RunFinally

SpecJob == JobInit /\ [][JobNext]_vars

\* ------------------------------------------------------------------ transform specification
\* The pure functions of the loaders (validation, transform, normalizers,
\* fingerprint) applied to sample inputs, one application in a behaviour;
\* `call` holds it.

\* mappings of an API source: mode long, mode wide, the fields of both modes,
\* the fields of neither, and mode wide with a unit field
SampleMappings ==
  { LongMapping, WideMapping,
    [LongMapping EXCEPT !.year_column_regex = Some(YearColumnRegex)],
    NeitherMapping,
    [WideMapping EXCEPT !.unit_field = <<"Unit">>] }

\* a value String(...) raises on
Bad == JObj(<<<<"toString", JNull>>>>)

JumlahPenduduk ==
  JStr(<<"J", "u", "m", "l", "a", "h", " ", "P", "e", "n", "d", "u", "d", "u", "k">>)

\* records of a remote resource: in long form with every kind of cell, the
\* two records the specification gives as examples, and records in wide form
SampleRaws ==
  { LongRaw(e, t, n, u) :
      e \in {JStr(<<"a">>), JStr(<<" ", "a", " ">>), JStr(<<" ">>), JStr(<<>>),
             JNull, Bad},
      t \in {JNum(2021), JStr(<<"2", "0", "2", "1", "x">>), JStr(<<"x">>), JNull},
      n \in {JNum(5), JStr(<<"1", ",", "5", "0", "0">>), JStr(<<"a", "b", "c">>), Bad},
      u \in {Kg, JStr(<<"n", "u", "l", "l">>), JNull} }
  \cup
  { JObj(<<<<"Elemen", JStr(<<>>)>>, <<"Tahun", JNum(2021)>>, <<"Nilai", JNum(5)>>>>),
    JObj(<<<<"Tahun", JNum(2021)>>, <<"Nilai", JNum(5)>>, <<"Data 2019", JNum(1)>>>>),
    WideRaw(JumlahPenduduk, JStr(<<"1", ".", "2", "0", "0">>),
            JStr(<<"1", "3", "5", "0">>), JStr(<<"O", "r", "a", "n", "g">>)),
    WideRaw(JStr(<<>>), JNum(1), JNum(2), Kg),
    WideRaw(JStr(<<"a">>), JNum(1), Bad, Kg),
    WideRaw1(JStr(<<"b">>), JNum(3)),
    JObj(<<<<"Elemen", JStr(<<"a">>)>>, <<"Tahun", JNum(2021)>>, <<"Nilai", JNum(5)>>,
           <<"Data 2019", JNum(7)>>, <<"Unit", JStr(<<"t">>)>>, <<"Satuan", Kg>>>>) }

TransformInit ==
  /\ facts = <<>>
  /\ checkpoints = NoCheckpoints
  /\ etl_logs = <<>>
  /\ now = 0
  /\ foundRows = 0
  /\ call = NoCall
  /\ prev = Brief(NoCall)
  /\ ncalls = 0
  /\ env = [settings |-> [batch_size |-> 1, max_retries |-> 0, retry_delay |-> 0,
                          enable_checkpoints |-> TRUE],
            source |-> ApiSource(LongMapping), remote |-> <<>>]
  /\ run = IdleRun
  /\ hist = NoHist
  /\ connection = "null"
  /\ job = NoJob

\* validateCsvStructure on the model's files, a file without records, one
\* without the Tahun column and one with a Periode column, under the model's
\* mapping, one with a nested path and one naming the same column twice
ValidateCsvStructureCall ==
  /\ call = NoCall
  /\ \E rows \in CsvFiles \cup
                 { <<>>,
                   << JObj(<<<<"Elemen", JStr(<<"x">>)>>, <<"Nilai", JStr(<<"3">>)>>,
                             <<"Satuan", Kg>>>>) >>,
                   << JObj(<<<<"Elemen", JStr(<<"x">>)>>, <<"Periode", JStr(<<"3">>)>>,
                             <<"Satuan", Kg>>>>) >> },
        mapping \in { CsvSource.mapping,
                      [CsvSource.mapping EXCEPT !.nilai_field = <<"Nilai", "Rp">>],
                      [CsvSource.mapping EXCEPT !.tahun_field = <<"Periode">>,
                                                !.nilai_field = <<"Periode">>] } :
       LET sourceConfig == [CsvSource EXCEPT !.mapping = mapping]
       IN call' = [op |-> "validateCsvStructure", rows |-> rows,
                   sourceConfig |-> sourceConfig,
                   isValid |-> validateCsvStructure(rows, sourceConfig),
                   errors |-> validateCsvErrors(rows, sourceConfig)]
  /\ UNCHANGED <<facts, checkpoints, etl_logs, now, foundRows, prev, ncalls, env,
                 run, hist, connection, job>>

\* transformRecord of the API loader on one record
TransformRecordCall ==
  /\ call = NoCall
  /\ \E record \in SampleRaws, mapping \in SampleMappings :
       LET sourceConfig == ApiSource(mapping)
           raised == transformThrows(record, sourceConfig)
       IN call' = [op |-> "transformRecord", record |-> record,
                   sourceConfig |-> sourceConfig, raised |-> raised,
                   out |-> IF raised THEN <<>>
                           ELSE transformRecord(record, sourceConfig)]
  /\ UNCHANGED <<facts, checkpoints, etl_logs, now, foundRows, prev, ncalls, env,
                 run, hist, connection, job>>

\* processRecords of the API loader on a fetched page of up to MaxBatch records
ProcessRecordsCall ==
  /\ call = NoCall
  /\ \E records \in SeqsUpTo({ LongRaw(JStr(<<"a">>), JNum(2021), JNum(5), Kg),
                                LongRaw(JStr(<<"b">>), JNull, Bad, Kg),
                                LongRaw(JStr(<<>>), JNull, Bad, Kg),
                                WideRaw(JStr(<<"a">>), JNum(1), Bad, Kg),
                                WideRaw1(JStr(<<"b">>), JNum(3)) }, MaxBatch),
        mapping \in {LongMapping, WideMapping} :
       call' = [op |-> "processRecords", records |-> records,
                sourceConfig |-> ApiSource(mapping),
                out |-> processRecords(records, ApiSource(mapping))]
  /\ UNCHANGED <<facts, checkpoints, etl_logs, now, foundRows, prev, ncalls, env,
                 run, hist, connection, job>>

\* the integer and float normalizers of the API loader (the helpers are the
\* same code) and of the file loader on one value; String(value) raises on a
\* value that is not printable
ParseSafelyCall ==
  /\ call = NoCall
  /\ \E value \in { JNull, JNum(5), Bad, JStr(<<>>), JStr(<<" ">>),
                     JStr(<<"1", "2">>), JStr(<<"-", "3">>),
                     JStr(<<"2", "0", "2", "1", "x">>), JStr(<<"a", "b", "c">>),
                     JStr(<<"1", ",", "5", "0", "0">>),
                     JStr(<<"1", ".", "2", "0", "0">>),
                     JStr(<<"1", ".", "5", ".", "2">>),
                     JStr(<<"1", "-", "2">>), JStr(<<"R", "p", " ", "7">>) } :
       call' = IF Unprintable(value)
               THEN [op |-> "parseSafely", value |-> value, raised |-> TRUE]
               ELSE [op |-> "parseSafely", value |-> value, raised |-> FALSE,
                     int |-> parseIntSafely(value),
                     float |-> parseFloatSafely(value),
                     csvInt |-> csvParseIntSafely(value),
                     csvFloat |-> csvParseFloatSafely(value)]
  /\ UNCHANGED <<facts, checkpoints, etl_logs, now, foundRows, prev, ncalls, env,
                 run, hist, connection, job>>

\* extractField of either loader on a record with a nested member and a
\* column of empty name, for an undefined, an empty and a dotted path
ExtractFieldCall ==
  /\ call = NoCall
  /\ \E loader \in {"api", "csv"},
        record \in { LongRaw(JStr(<<"a">>), JNum(2021), JNull, Kg),
                     JObj(<<<<"Elemen", JStr(<<"a">>)>>,
                            <<"meta", JObj(<<<<"unit", Kg>>>>)>>,
                            <<"", JStr(<<"e">>)>>>>) },
        fieldPath \in { <<>>, <<"">>, <<"Elemen">>, <<"Nilai">>, <<"Missing">>,
                        <<"meta", "unit">>, <<"meta", "x">>, <<"Elemen", "x">> } :
       LET raised == loader = "csv" /\ csvExtractFieldThrows(fieldPath)
       IN call' = [op |-> "extractField", loader |-> loader, record |-> record,
                   fieldPath |-> fieldPath, raised |-> raised,
                   out |-> IF raised THEN JNull
                           ELSE IF loader = "api" THEN extractField(record, fieldPath)
                           ELSE csvExtractField(record, fieldPath)]
  /\ UNCHANGED <<facts, checkpoints, etl_logs, now, foundRows, prev, ncalls, env,
                 run, hist, connection, job>>

\* transformRecord of the file loader on one row, its cells strings (a CSV
\* file) or numbers (a worksheet)
CsvTransformRecordCall ==
  /\ call = NoCall
  /\ \E e \in {JStr(<<"a">>), JStr(<<" ">>), JNum(0)},
        t \in {JStr(<<"2", "0", "2", "1">>), JNum(0), JStr(<<" ">>)},
        n \in {JStr(<<"R", "p", " ", "7">>), JNum(0), JStr(<<"1", ",", "5", "0", "0">>)},
        u \in {Kg, JStr(<<" ">>)} :
       call' = [op |-> "csvTransformRecord", record |-> LongRaw(e, t, n, u),
                sourceConfig |-> CsvSource,
                out |-> csvTransformRecord(LongRaw(e, t, n, u), CsvSource,
                                           CsvSource.file_name)]
  /\ UNCHANGED <<facts, checkpoints, etl_logs, now, foundRows, prev, ncalls, env,
                 run, hist, connection, job>>

TransformNext ==
  \/ ValidateCsvStructureCall \/ TransformRecordCall \/ ProcessRecordsCall
  \/ ParseSafelyCall \/ ExtractFieldCall \/ CsvTransformRecordCall

SpecTransform == TransformInit /\ [][TransformNext]_vars

\* ------------------------------------------------------------------ claims: store
RowsWithKey(table, h) == {i \in DOMAIN table : table[i].hash_key = h}

\* C1: after any sequence of upsertRecords / batchUpsertRecords calls, failed
\* ones and batches with a repeated hash_key included, facts_long holds at
\* most one row per hash_key.
C1_OneRowPerHashKey ==
  \A i, j \in DOMAIN facts : facts[i].hash_key = facts[j].hash_key => i = j

\* a committed batch that holds one hash_key twice, after a call that failed
C1_Witness ==
  /\ call.op = "upsertRecords" /\ ~call.raised
  /\ Len(call.records) = 2
  /\ call.records[1].hash_key = call.records[2].hash_key
  /\ call.records[1] /= call.records[2]
  /\ prev.op = "upsertRecords" /\ prev.raised
  /\ Len(facts) = 1

\* C2: upserting the same record in two successive one-record upsertRecords
\* calls leaves exactly one stored row, and the second call reports
\* updated = 1 and inserted = 0.
C2_SecondWriteCountedAsUpdate ==
  ( /\ call.op = "upsertRecords" /\ ~call.raised
    /\ prev.op = "upsertRecords" /\ ~prev.raised
    /\ Len(call.records) = 1
    /\ prev.records = call.records )
  => /\ Cardinality(RowsWithKey(facts, call.records[1].hash_key)) = 1
     /\ call.res.updated = 1
     /\ call.res.inserted = 0

FirstWithKey(records, h) ==
  records[CHOOSE j \in DOMAIN records :
            /\ records[j].hash_key = h
            /\ \A k \in DOMAIN records : records[k].hash_key = h => j <= k]

LastWithKey(records, h) ==
  records[CHOOSE j \in DOMAIN records :
            /\ records[j].hash_key = h
            /\ \A k \in DOMAIN records : records[k].hash_key = h => k <= j]

TakesIncoming(row, r, t) ==
  /\ row.nilai = r.nilai /\ row.satuan = r.satuan /\ row.raw_json = r.raw_json
  /\ row.source_type = r.source_type /\ row.source_ref = r.source_ref
  /\ row.updated_at = t

\* C3: a record of upsertRecords whose hash_key is already stored leaves the
\* stored row's kategori, elemen, tahun, hash_key and ingested_at as they
\* were; nilai, satuan, raw_json, source_type and source_ref take the incoming
\* record's values and updated_at the time of the call; rows no record of the
\* batch names stay as they were.
C3_DuplicateKeepsIdentity ==
  [][ (ncalls' = ncalls + 1 /\ call'.op = "upsertRecords" /\ ~call'.raised) =>
        \A i \in DOMAIN facts :
          /\ i \in DOMAIN facts'
          /\ facts'[i].kategori = facts[i].kategori
          /\ facts'[i].elemen = facts[i].elemen
          /\ facts'[i].tahun = facts[i].tahun
          /\ facts'[i].hash_key = facts[i].hash_key
          /\ facts'[i].ingested_at = facts[i].ingested_at
          /\ IF \E j \in DOMAIN call'.records :
                  call'.records[j].hash_key = facts[i].hash_key
             THEN TakesIncoming(facts'[i],
                    LastWithKey(call'.records, facts[i].hash_key), now)
             ELSE facts'[i] = facts[i] ]_vars

\* a stored row was met, at a later time, by a record with its hash_key and
\* another elemen and tahun
C3_Witness ==
  /\ call.op = "upsertRecords" /\ ~call.raised
  /\ \E i \in DOMAIN facts :
       /\ facts[i].hash_key = call.records[1].hash_key
       /\ facts[i].elemen /= call.records[1].elemen
       /\ facts[i].tahun /= call.records[1].tahun
       /\ facts[i].raw_json = call.records[1].raw_json
       /\ facts[i].ingested_at < facts[i].updated_at

\* ------------------------------------------------------------------ claims: runs
InRun == run.pc /= "idle" /\ run.kind = "api"

Enabled == env.settings.enable_checkpoints

OffsetOf(checkpoint) == IF checkpoint = None THEN 0 ELSE checkpoint[1]

\* C4: a run of processApiSource in which a chunk of batchUpsertRecords failed
\* leaves the checkpoint of the source at the value it had before the run.
C4_FailedChunkKeepsCheckpoint ==
  (InRun /\ run.pc = "logdone" /\ run.result.errors > 0)
    => checkpoints[ApiKey] = run.checkpointBefore

\* C5: with checkpoints enabled, every remote record at an offset below the
\* saved checkpoint was fetched and handed to batchUpsertRecords by some run,
\* in mode long and wide and under every since / limit option.
C5_AtLeastOnceFetch ==
  Enabled =>
    \A k \in 0..(Len(env.remote) - 1) :
      k < OffsetOf(checkpoints[ApiKey]) => k \in hist.handed

\* the rows of the records of a batch are all in the table already
AllStored(table, records) ==
  \A i \in DOMAIN records : HasKey(table, records[i].hash_key)

\* re-inserting records whose rows are stored leaves the number of rows unchanged
ReinsertKeepsCount ==
  (InRun /\ run.pc = "checkpoint" /\ AllStored(run.factsBefore, run.upserted))
    => Len(facts) = Len(run.factsBefore)

C7_CheckpointOncePerRun ==
  [][ /\ run'.reads <= 1
      /\ run'.writes <= 1
      /\ run'.reads > run.reads => (run.pc = "idle" /\ ~run'.requested)
      /\ (run'.writes > run.writes \/ checkpoints' /= checkpoints) =>
           (run.pc = "checkpoint" /\ run.writes = 0)
      /\ run'.pc \in {"fetch", "backoff", "delay", "loaded", "catch"} =>
           (run'.writes = 0 /\ checkpoints'[ApiKey] = run'.checkpointBefore)
    ]_vars

\* a run that read its checkpoint, requested more than one page and wrote
\* the checkpoint once
C7_Witness ==
  /\ InRun /\ run.pc = "logdone"
  /\ run.reads = 1 /\ run.writes = 1 /\ run.delays >= 1
  /\ checkpoints[ApiKey] /= run.checkpointBefore

\* C8: fetchDataWithRetry makes at most max_retries attempts for a page and
\* waits retry_delay * 2^(a-1) after the failed attempt a < max_retries.
C8_RetryPolicy ==
  (InRun /\ run.pc \in {"fetch", "backoff"}) =>
    /\ \A a \in DOMAIN run.waits :
         /\ a < env.settings.max_retries
         /\ run.waits[a] = env.settings.retry_delay * Pow2(a - 1)
    /\ run.attempt <= env.settings.max_retries

\* C9: when a page fetch failed on all its attempts, loadData raises and
\* hands over none of the records fetched before; the run writes no row,
\* leaves the checkpoint unchanged and ends failed.
C9_ExhaustedLoadFailsRun ==
  run.exhausted =>
    /\ run.pc \in {"catch", "idle"}
    /\ run.pc = "idle" => run.outcome \in {"failed", "killed"}
    /\ run.allRecords = <<>>
    /\ run.upserted = <<>>
    /\ facts = run.factsBefore
    /\ checkpoints[ApiKey] = run.checkpointBefore

\* a run that failed on a later page, after pages with records were fetched
C9_Witness ==
  /\ run.exhausted /\ run.pc = "idle" /\ run.outcome = "failed"
  /\ run.offset > run.startOffset
  /\ etl_logs /= <<>> /\ etl_logs[Len(etl_logs)].status = "failed"

\* C10: a response with success = false is retried like a transport failure:
\* the load fails on it only after max_retries attempts for the page.
C10_UnsuccessfulIsRetried ==
  (InRun /\ run.pc = "catch" /\ run.error = "unsuccessful")
    => run.attempt = LoaderMaxRetries(env.settings)

C12_UpsertAllOrNothing ==
  [][ (ncalls' = ncalls + 1 /\ call'.op = "upsertRecords") =>
        /\ ~call'.open
        /\ call'.raised => facts' = facts
    ]_vars

\* a call that raised on a batch with one record to insert and one to update
C12_Witness ==
  /\ call.op = "upsertRecords" /\ call.raised /\ ~call.open
  /\ Len(call.records) = 2
  /\ ~HasKey(facts, call.records[1].hash_key)
  /\ \E i \in DOMAIN facts :
       /\ facts[i].hash_key = call.records[2].hash_key
       /\ facts[i].raw_json /= call.records[2].raw_json

\* the records of the chunks that did not fail, in order
RECURSIVE KeptFrom(_, _, _, _)
KeptFrom(records, batchSize, fails, i) ==
  IF i >= Len(records) THEN <<>>
  ELSE (IF i \in fails THEN <<>> ELSE Slice(records, i, i + batchSize))
       \o KeptFrom(records, batchSize, fails, i + batchSize)

\* C13: in batchUpsertRecords a failed chunk is isolated: its records are
\* counted as errors, the call does not raise, and the rows of every other
\* chunk, earlier or later, are stored.
C13_ChunkFailureIsolated ==
  [][ (ncalls' = ncalls + 1 /\ call'.op = "batchUpsertRecords") =>
        LET c == call'
            kept == KeptFrom(c.records, c.batchSize, c.fails, 0)
        IN /\ ~c.raised
           /\ c.res.errors = Len(c.records) - Len(kept)
           /\ c.res.inserted + c.res.updated = Len(kept)
           /\ facts' = UpsertRows(facts, kept, now)
           /\ \A i \in DOMAIN kept : HasKey(facts', kept[i].hash_key)
    ]_vars

\* the first chunk failed and the second one was committed
C13_Witness ==
  /\ call.op = "batchUpsertRecords" /\ call.batchSize = 1 /\ call.fails = {0}
  /\ Len(call.records) = 2
  /\ call.res.errors = 1
  /\ ~HasKey(facts, call.records[1].hash_key)
  /\ HasKey(facts, call.records[2].hash_key)

\* ------------------------------------------------------------------ claims: runs, errors
\* this step ends the processing of a source (it returns or raises)
EndsRun ==
  /\ run'.pc = "idle"
  /\ run.pc /= "idle" \/ hist'.nruns > hist.nruns
  /\ run'.outcome /= "killed"

LastLog(logs) == logs[Len(logs)]

\* C14: when the transaction of a chunk failed during a run, the run raises
\* to its caller and its log entry is 'failed', never 'completed'.
C14_ChunkFailureFailsRun ==
  [][ (InRun /\ run.result.errors > 0 /\ EndsRun) =>
        /\ run'.outcome = "failed"
        /\ run.logOk => LastLog(etl_logs').status = "failed"
    ]_vars

\* the 'failed' row with the error message is the last row of etl_logs
FailedLogged(logs, error) ==
  /\ logs /= <<>>
  /\ LastLog(logs).status = "failed"
  /\ LastLog(logs).error_message = error

\* C15 as stated: a source-level error aborts the run, a 'failed' log entry
\* with the error message is written and the error is re-raised.
C15_SourceErrorLoggedAndRaised ==
  [][ /\ (run.pc = "catch" /\ EndsRun) => run'.outcome = "failed"
      /\ (EndsRun /\ run'.outcome = "failed") =>
           /\ run'.error /= "none"
           /\ facts' = facts
           /\ etl_logs' /= etl_logs
           /\ FailedLogged(etl_logs', run'.error)
    ]_vars

\* C15 as amended: a source-level error aborts the run and is re-raised; the
\* 'failed' log entry with the error message is written when the log write
\* succeeds, and nothing is logged when it fails.
C15_SourceErrorRaisedLoggedIfPossible ==
  [][ /\ (run.pc = "catch" /\ EndsRun) => run'.outcome = "failed"
      /\ (EndsRun /\ run'.outcome = "failed") =>
           /\ run'.error /= "none"
           /\ facts' = facts
           /\ IF run'.logOk
              THEN etl_logs' /= etl_logs /\ FailedLogged(etl_logs', run'.error)
              ELSE etl_logs' = etl_logs
    ]_vars

\* a file run whose load failed after the 'started' row was written
C15_Witness ==
  /\ run.pc = "idle" /\ run.kind = "csv" /\ run.outcome = "failed"
  /\ run.error = "load" /\ run.logOk
  /\ Len(etl_logs) >= 2
  /\ etl_logs[Len(etl_logs) - 1].status = "started"
  /\ FailedLogged(etl_logs, "load")

\* C17: a run that wrote a 'started' log entry writes exactly one terminal
\* entry, 'completed' or 'failed', before it returns or raises (log writes
\* succeeding), runs without records and dry runs included.
C17_StartedRunLogsTerminal ==
  [][ (EndsRun /\ run'.logOk
         /\ ~(run'.kind = "csv" /\ run'.error = "validation")) =>
        LET n == Len(etl_logs')
        IN /\ n >= 2
           /\ etl_logs'[n].status \in {"completed", "failed"}
           /\ etl_logs'[n - 1].status = "started"
    ]_vars

\* C20: with the dry-run flag the processing of a source, API or file,
\* fetches, transforms and filters but never calls batchUpsertRecords:
\* facts_long is unchanged.
C20_DryRunWritesNothing ==
  [][ LET dry == IF run.pc /= "idle" THEN run.options.dryRun
                 ELSE run'.options.dryRun
      IN (dry /\ (run.pc /= "idle" \/ hist'.nruns > hist.nruns)) =>
           /\ facts' = facts
           /\ hist'.handed = hist.handed
           /\ run'.upserted = <<>>
           /\ run'.result = ZeroResult
           /\ run'.pc \notin {"checkpoint", "logdone"}
    ]_vars

\* a dry run of the API source that loaded all the records and returned
C20_Witness ==
  /\ run.pc = "idle" /\ run.kind = "api" /\ run.outcome = "returned"
  /\ run.options.dryRun
  /\ hist.nruns = 1 /\ ~hist.killed
  /\ facts = <<>>
  /\ run.logOk /\ etl_logs /= <<>> /\ LastLog(etl_logs).status = "started"

\* ------------------------------------------------------------------ claims: manager
\* C18: getCheckpoint never raises: in every state of the store and of the
\* connection it returns an offset, 0 when the lookup fails or no row exists.
C18_GetCheckpointNeverRaises ==
  call.op = "getCheckpoint" =>
    /\ ~call.raised
    /\ call.offset /= None
    /\ (~call.ok \/ checkpoints[call.key] = None) => call.offset = Some(0)

\* C19: logEtlActivity and saveCheckpoint never raise to their caller, in any
\* state of the store or of the connection.
C19_SideChannelsNeverRaise ==
  call.op \in {"logEtlActivity", "saveCheckpoint"} => ~call.raised

\* ------------------------------------------------------------------ claims: job
Attempted(kind, i) == \E n \in 1..Len(job.attempted) : job.attempted[n] = <<kind, i>>

\* C16: a fatal error in one source does not affect the others: when the job
\* ends, every configured source of the mode that passes the --only filter
\* has been processed.
C16_OtherSourcesStillProcessed ==
  (job.pc = "done" /\ job.error \in {"none", "source"}) =>
    /\ job.mode \in {"all", "api"} =>
         \A i \in 1..Len(env.sources) :
           ~Skipped(job.only, env.sources[i]) => Attempted("api", i)
    /\ job.mode \in {"all", "csv"} =>
         \A i \in 1..Len(env.csv_sources) :
           ~Skipped(job.only, env.csv_sources[i]) => Attempted("csv", i)

\* ------------------------------------------------------------------ claims: file sources
\* C21: for a file source, loadData and every write to facts_long happen only
\* after validateCsvStructure returned valid; when it returns errors the run
\* fails without loading the file or writing a fact row.
C21_ValidationGatesLoad ==
  [][(run'.kind = "csv" /\ hist'.nruns > hist.nruns) =>
       /\ run'.valid /= None
       /\ (run'.loaded \/ facts' /= facts) => run'.valid = Some(TRUE)
       /\ run'.valid = Some(FALSE) =>
            (run'.outcome = "failed" /\ ~run'.loaded /\ facts' = facts)]_vars

C21_Witness ==
  /\ run.kind = "csv" /\ run.valid = Some(FALSE)
  /\ run.outcome = "failed" /\ run.error = "validation"

MappedFields == {"elemen_field", "tahun_field", "nilai_field", "satuan_field"}

\* the mapped fields whose column the header of the sampled file lacks
Lacking(rows, mapping) ==
  {f \in MappedFields :
     \A i \in DOMAIN rows[1][2] : <<rows[1][2][i][1]>> /= mapping[f]}

\* C22: validateCsvStructure on a file whose header lacks one of the four
\* mapped fields returns isValid = false with exactly one error for that
\* field, naming the field and listing the header's columns; it returns
\* isValid = true if and only if all four mapped paths resolve against the
\* first sampled row.
C22_MissingFieldReported ==
  call.op = "validateCsvStructure" =>
    LET rows == call.rows
        mapping == call.sourceConfig.mapping
    IN /\ call.isValid <=>
            /\ rows /= <<>>
            /\ \A f \in MappedFields : fieldExists(rows[1], mapping[f])
       /\ (rows /= <<>> /\ Cardinality(Lacking(rows, mapping)) = 1) =>
            LET f == CHOOSE f \in Lacking(rows, mapping) : TRUE
            IN /\ ~call.isValid
               /\ Len(call.errors) = 1
               /\ call.errors[1][2] = mapping[f]
               /\ call.errors[1][3] = Keys(rows[1])

C22_Witness ==
  /\ call.op = "validateCsvStructure" /\ call.rows /= <<>>
  /\ Lacking(call.rows, call.sourceConfig.mapping) = {"satuan_field"}
  /\ Len(call.errors) = 1

Cell(record, key) ==
  IF HasMember(record[2], key) THEN Member(record[2], key) ELSE JNull

Blank(cell) == cell = JNull \/ Trim(ToStr(cell)) = <<>>

LongMode(mapping) == mapping.tahun_field /= <<>> /\ mapping.nilai_field /= <<>>

WideMode(mapping) == ~LongMode(mapping) /\ mapping.year_column_regex /= None

\* a transformRecord that returned, in mode long
LongCall == call.op = "transformRecord" /\ ~call.raised /\ LongMode(call.sourceConfig.mapping)

\* a transformRecord that returned, in mode wide
WideCall == call.op = "transformRecord" /\ ~call.raised /\ WideMode(call.sourceConfig.mapping)

\* C24: the long transform of a record emits exactly one canonical record
\* when the element resolves to a non-empty trimmed string and none when it
\* is empty or missing ({Elemen:"", Tahun:2021, Nilai:5} yields none); a year
\* or value that does not parse leaves the count and makes the field absent.
C24_LongEmitsOneOrNone ==
  LongCall =>
    LET e == Cell(call.record, "Elemen")
        t == Cell(call.record, "Tahun")
        n == Cell(call.record, "Nilai")
    IN /\ Len(call.out) = IF Blank(e) THEN 0 ELSE 1
       /\ ~Blank(e) =>
            /\ call.out[1].elemen = Trim(ToStr(e))
            /\ t = JNum(2021) => call.out[1].tahun = Some(2021)
            /\ t \in {JNull, JStr(<<"x">>)} => call.out[1].tahun = None
            /\ n = JNum(5) => call.out[1].nilai = Some(<<"5">>)
            /\ n = JStr(<<"a", "b", "c">>) => call.out[1].nilai = None

C24_Witness ==
  /\ LongCall /\ Len(call.out) = 1
  /\ Cell(call.record, "Tahun") = JStr(<<"x">>) /\ call.out[1].tahun = None

\* the members of a record under a year column, in the order of its keys
RECURSIVE YearCells(_)
YearCells(pairs) ==
  IF pairs = <<>> THEN <<>>
  ELSE (CASE pairs[1][1] = "Data 2019" -> << <<2019, pairs[1][2]>> >>
          [] pairs[1][1] = "Data 2020" -> << <<2020, pairs[1][2]>> >>
          [] OTHER -> <<>>)
       \o YearCells(Tail(pairs))

\* C25: the wide transform of a record with a non-empty element emits
\* exactly one canonical record per key that matches the year-column regular
\* expression, its year from the first capture group and its value from the
\* cell under that key; a record with an empty element yields none.
C25_WideEmitsOnePerYearColumn ==
  WideCall =>
    LET cells == YearCells(call.record[2])
    IN IF Blank(Cell(call.record, "Elemen")) THEN call.out = <<>>
       ELSE /\ Len(call.out) = Len(cells)
            /\ \A k \in DOMAIN cells :
                 /\ call.out[k].tahun = Some(cells[k][1])
                 /\ call.out[k].nilai = parseFloatSafely(cells[k][2])
                 /\ call.out[k].elemen = Trim(ToStr(Cell(call.record, "Elemen")))

C25_Witness == WideCall /\ Len(call.out) = 2 /\ call.out[1].tahun /= call.out[2].tahun

\* C26: the wide transform of {Elemen: "Jumlah Penduduk", "Data 2019":
\* "1.200", "Data 2020": "1350", Satuan: "Orang"} yields exactly the records
\* (2019, 1200, "Orang") and (2020, 1350, "Orang").
C26_ThousandsSeparatorRemoved ==
  (WideCall /\ Cell(call.record, "Elemen") = JumlahPenduduk) =>
    /\ Len(call.out) = 2
    /\ call.out[1].tahun = Some(2019)
    /\ call.out[1].nilai = Some(<<"1", "2", "0", "0">>)
    /\ call.out[2].tahun = Some(2020)
    /\ call.out[2].nilai = Some(<<"1", "3", "5", "0">>)
    /\ \A k \in {1, 2} : call.out[k].satuan = Some(<<"O", "r", "a", "n", "g">>)

\* C27: when the mapping of a source configures neither mode, the transform
\* emits no record for any source record, and the load and the run of the
\* source do not fail: the run returns with facts_long as it was.
C27_NeitherModeIsNotFatal ==
  [][(env.source.mapping = NeitherMapping /\ run.kind = "api") =>
       /\ run'.allRecords = <<>>
       /\ (run.pc = "loaded" /\ run'.pc = "idle" /\ run'.outcome /= "killed") =>
            (run'.outcome = "returned" /\ run'.error = "none" /\ facts' = facts)]_vars

C27_Witness ==
  /\ env.source.mapping = NeitherMapping /\ env.remote /= <<>>
  /\ run.kind = "api" /\ run.pc = "loaded" /\ run.requested

\* a canonical record the wide mode made: its raw_json names the year column
IsWideRow(row) == HasMember(row.raw_json, "__value_from__")

\* C28: one mapping mode is applied to every record of a source: long when
\* tahun_field and nilai_field are both set, also when year_column_regex is
\* set as well, otherwise wide when year_column_regex is set; no record is
\* transformed by both modes.
C28_OneModePerSource ==
  /\ LongCall => (Len(call.out) <= 1 /\ \A k \in DOMAIN call.out : ~IsWideRow(call.out[k]))
  /\ WideCall => \A k \in DOMAIN call.out : IsWideRow(call.out[k])

C28_Witness ==
  /\ LongCall /\ call.sourceConfig.mapping.year_column_regex /= None
  /\ YearCells(call.record[2]) /= <<>>
  /\ Len(call.out) = 1 /\ ~IsWideRow(call.out[1])

\* the identity fields of a canonical record
Identity(r) == <<r.kategori, r.elemen, r.tahun, r.nilai, r.satuan, r.source_ref>>

\* C29: two canonical records of the same source kind have the same hash_key
\* if and only if their (kategori, elemen, tahun, nilai, satuan, source
\* reference) are equal, absent fields and strings with '|' included.
C29_FingerprintInjective ==
  \A i, j \in DOMAIN call.records :
    call.records[i].source_type = call.records[j].source_type =>
      (call.records[i].hash_key = call.records[j].hash_key
         <=> Identity(call.records[i]) = Identity(call.records[j]))

\* a string that is wholly an integer numeral, a sign and digits
IsInteger(s) == DropSign(s) /= <<>> /\ TakeDigits(DropSign(s)) = DropSign(s)

\* a string that is wholly a decimal numeral, a sign, digits and a fraction
IsDecimal(s) ==
  LET u == DropSign(s)
      int == TakeDigits(u)
      rest == SubSeq(u, Len(int) + 1, Len(u))
  IN /\ int /= <<>>
     /\ rest = <<>> \/ (Head(rest) = "." /\ Tail(rest) /= <<>>
                        /\ TakeDigits(Tail(rest)) = Tail(rest))

\* C30: the integer and float normalizers never raise, and an input that is
\* not wholly a number after the stripping (of surrounding blanks, and of
\* commas for a float) yields missing rather than a number.
C30_MalformedYieldsMissing ==
  call.op = "parseSafely" =>
    /\ ~call.raised
    /\ LET s == IF call.value = JNull THEN <<>> ELSE Trim(ToStr(call.value))
       IN /\ ~IsInteger(s) => call.int = None
          /\ ~IsDecimal(RemoveCommas(s)) => call.float = None

\* ------------------------------------------------------------------ claims: extract
\* C31: extractField of both loaders returns the value at the terminal key of
\* a dotted path, missing when a segment is absent or an intermediate value
\* is not a mapping, and missing, without raising, for an empty or undefined
\* path.
C31_ExtractFieldNeverRaises ==
  call.op = "extractField" =>
    LET path == call.fieldPath
        top == Cell(call.record, path[1])
    IN /\ ~call.raised
       /\ call.out = IF path \in {<<>>, <<"">>} THEN JNull
                     ELSE IF Len(path) = 1 THEN top
                     ELSE IF top[1] = "object" THEN Cell(top, path[2])
                     ELSE JNull

\* C32: the row transform of the file loader and the long transform of the
\* API loader give, for the same raw record and the same four field paths,
\* the same element, year, value and unit, and both emit nothing when the
\* element is empty.
C32_SameRulesAsLongMode ==
  call.op = "csvTransformRecord" =>
    LET long == TransformLong(call.record, ApiSource(LongMapping))
    IN /\ Len(call.out) = Len(long)
       /\ (call.out /= <<>> /\ long /= <<>>) =>
            /\ call.out[1].elemen = long[1].elemen
            /\ call.out[1].tahun = long[1].tahun
            /\ call.out[1].nilai = long[1].nilai
            /\ call.out[1].satuan = long[1].satuan

\* ------------------------------------------------------------------ claims: sequencing
\* the sources attempted, in the order their processing began
KindOrder(kind) == IF kind = "api" THEN 1 ELSE 2

\* C33: sources are processed strictly one after another: at most one source
\* is in progress, a source starts only after the one before it returned, in
\* list order, and in mode 'all' every API source is processed before any
\* file source.
C33_OneSourceAtATime ==
  /\ Cardinality(job.active) <= 1
  /\ \A source \in job.active :
       job.attempted /= <<>> /\ source = job.attempted[Len(job.attempted)]
  /\ \A m \in 1..Len(job.attempted), n \in 1..Len(job.attempted) :
       m < n =>
         \/ KindOrder(job.attempted[m][1]) < KindOrder(job.attempted[n][1])
         \/ /\ job.attempted[m][1] = job.attempted[n][1]
            /\ job.attempted[m][2] < job.attempted[n][2]
  /\ (job.mode = "all" /\ \E n \in 1..Len(job.attempted) : job.attempted[n][1] = "csv") =>
       \A i \in 1..Len(env.sources) :
         ~Skipped(job.only, env.sources[i]) =>
           (Attempted("api", i) /\ <<"api", i>> \notin job.active)

C33_Witness ==
  /\ job.mode = "all"
  /\ Len(job.attempted) = 4
  /\ job.active = {<<"csv", 2>>}

\* the pages loadData has received and processed so far
PagesDone(r) == (r.offset - r.startOffset) \div LoaderBatchSize(env.settings)

\* the last request of loadData was answered with a page of records
LastPageHadRecords(r) ==
  r.lastRequest /= None /\ r.lastRequest[1][1] < r.offset

\* C34: within one loadData there is one delay of 100 ms between every two
\* successive page requests, none before the first request and none after
\* the last: a request for page n + 1 is preceded by n delays, and a delay
\* begins only when a further page is to be requested.
C34_DelayBetweenPagesOnly ==
  run.kind = "api" =>
    /\ run.pc \in {"fetch", "backoff", "catch"} => run.delays = PagesDone(run)
    /\ run.pc = "delay" =>
         /\ run.delays = PagesDone(run) - 1
         /\ run.offset < Len(env.remote)
    /\ run.pc = "loaded" =>
         run.delays = IF LastPageHadRecords(run) THEN PagesDone(run) - 1
                      ELSE PagesDone(run)

C34_Witness ==
  /\ run.kind = "api" /\ run.pc = "loaded"
  /\ run.startOffset = 0 /\ PagesDone(run) = 3 /\ run.delays = 2

\* C35: the result of batchUpsertRecords is the sum over its chunks:
\* inserted + updated + errors is the number of records, and skipped is 0
\* (the store reports 0, 1 or 2 affected rows for each record).
C35_BatchResultCoversRecords ==
  call.op = "batchUpsertRecords" =>
    /\ call.res.inserted + call.res.updated + call.res.errors = Len(call.records)
    /\ call.res.skipped = 0

C35_Witness ==
  /\ call.op = "batchUpsertRecords"
  /\ Len(call.records) = 2 /\ call.batchSize = 1
  /\ call.res.updated = 1 /\ call.res.errors = 1

\* C36: facts_long holds at most one row for a logical fact (kategori,
\* elemen, tahun, source_ref): a record whose nilai or satuan changed updates
\* the row of that fact.
C36_OneRowPerLogicalFact ==
  \A m \in DOMAIN facts, n \in DOMAIN facts :
    ( /\ facts[m].kategori = facts[n].kategori
      /\ facts[m].elemen = facts[n].elemen
      /\ facts[m].tahun = facts[n].tahun
      /\ facts[m].source_ref = facts[n].source_ref ) => m = n

\* the entries of etl_logs up to the n-th that are of the source of the n-th
\* and have one of the given statuses
EntriesUpTo(n, statuses) ==
  {m \in 1..n : /\ etl_logs[m].source_type = etl_logs[n].source_type
                /\ etl_logs[m].source_ref = etl_logs[n].source_ref
                /\ etl_logs[m].status \in statuses}

\* C37: a terminal log entry ('completed' or 'failed') is written only after
\* the 'started' entry of the same run of that source: up to any terminal
\* entry, the source has as many 'started' entries as terminal ones.
C37_TerminalEntryFollowsStarted ==
  \A n \in DOMAIN etl_logs :
    etl_logs[n].status \in {"completed", "failed"} =>
      Cardinality(EntriesUpTo(n, {"started"}))
        >= Cardinality(EntriesUpTo(n, {"completed", "failed"}))

\* C38: batchUpsertRecords terminates for every record list and every
\* batch_size of the configuration, having handed each record to upsertRecords
\* in exactly one chunk, in input order.
C38_BatchUpsertTerminates ==
  (call.op = "batchUpsertRecords")
    ~> (call.op = "batchUpsertRecords" /\ call.pc = "returned"
        /\ call.attempted = call.records)

\* C39: loadData terminates, returning its records or raising, for every start
\* offset, one beyond the remote total included, and every configured batch
\* size, when every HTTP attempt returns or fails.
C39_LoadDataTerminates ==
  (run.pc = "fetch") ~> (run.pc \in {"loaded", "catch"})

C39_Witness ==
  /\ run.pc = "loaded"
  /\ run.startOffset > Len(env.remote)
  /\ env.settings.batch_size = 0

====
